---- MODULE Spec2Model ----
(***************************************************************************)
(* Network-flow optimisation engine of the supply-chain digital twin.      *)
(*                                                                         *)
(* Quantities (capacity, demand, shipped and unmet units) are integers in  *)
(* ticks of 1e-6 unit, so that the extractor's zero tolerance 1e-6 is one  *)
(* tick.  Unit costs are whole dollars per unit, so a cost times a         *)
(* quantity is an amount in micro-dollars; the KPI file holds amounts      *)
(* rounded to cents.                                                       *)
(*                                                                         *)
(* The three cleaned tables are files on disk and the inputs of a solve;   *)
(* the four result files are its outputs.  Two entry points solve:         *)
(* optimization.run (src/optimization.py) and model.optimization.run       *)
(* (src/model/optimization.py).                                            *)
(***************************************************************************)
EXTENDS Integers, Sequences, FiniteSets, TLC

VARIABLES
    dcs,             \* dcs_clean.csv: rows [dc_id, weekly_capacity]
    stores,          \* stores_clean.csv: rows [store_id, weekly_demand, region]
    transport,       \* transport_clean.csv: rows [dc_id, store_id, cost_per_unit_usd]
    optimal_flows,   \* optimal_flows.csv
    unmet_demand,    \* unmet_demand.csv
    dc_utilization,  \* dc_utilization.csv
    kpi_summary,     \* kpi_summary.csv
    res,             \* what linprog returned to the last run
    raised,          \* what the last run raised: "none", "RuntimeError", "KeyError"
    message,         \* the text carried by the raised error
    n_calls,         \* linprog invocations made by the last run
    entry,           \* the entry point of the last run
    n_runs,          \* plain runs started so far
    n_scen,          \* scenario runs started so far
    levers,          \* the mappings of the last scenario request
    applied,         \* the scenarios applied so far, each with the tables it read
    caller,          \* what started the last run
    cost_by_dc,          \* cost_by_dc.csv
    stores_served_by_dc, \* stores_served_by_dc.csv
    cost_by_region,      \* cost_by_region.csv
    slow_lanes_detail,   \* slow_lanes_detail.csv
    slow_lanes_kpis,     \* slow_lanes_kpis.csv
    an_raised,           \* what the last analytics.run raised
    n_an,                \* analytics runs started so far
    pc,              \* per API request: the statement it is about to execute
    loc,             \* per API request: its local frames and solution
    seen,            \* the output files as a consumer last read them
    ties,            \* what the build's quicksort does with rows of equal cost
    shown,           \* the rows the last rollup query returned
    asked,           \* the last rollup query: table, order, limit
    kpi_cache,       \* what answer_engine._kpi_df has memoized in this process
    answer,          \* the last answer of an answer_engine handler
    routed           \* the last question routed and the intent returned

inputs == <<dcs, stores, transport>>
outputs == <<optimal_flows, unmet_demand, dc_utilization, kpi_summary>>
derived == <<cost_by_dc, stores_served_by_dc, cost_by_region, slow_lanes_detail,
             slow_lanes_kpis>>
vars == <<dcs, stores, transport, optimal_flows, unmet_demand, dc_utilization,
          kpi_summary, res, raised, message, n_calls, entry, n_runs, n_scen,
          levers, applied, caller, cost_by_dc, stores_served_by_dc, cost_by_region,
          slow_lanes_detail, slow_lanes_kpis, an_raised, n_an, pc, loc, seen,
          ties, shown, asked, kpi_cache, answer, routed>>
api == <<pc, loc, seen>>
present == <<ties, shown, asked>>
chat == <<kpi_cache, answer, routed>>

(***************************** bounds **************************************)
MaxDCs == 2
MaxStores == 2
MaxLanes == 2
MaxQty == 2
NoiseTicks == 1
MaxRuns == 1
MaxScen == 1
MaxLeverKeys == 2
MaxFlowQty == 500
MaxReq == 2
MaxAn == 2
MaxChain == 2
MaxWords == 3
FloatBits == 14

(************************** program constants ******************************)
\* ticks per unit: the tolerance 1e-6 of the extractor is one tick
Unit == 1000 * 1000
\* `qty > 1e-6`
Tol == 1
\* UNMET_PENALTY = 10.0, dollars per unmet unit
UNMET_PENALTY == 10
\* config.UNMET_PENALTY as imported by model/optimization.py
CFG_UNMET_PENALTY == 10
\* micro-dollars per cent: round(value, 2)
CentMicro == 10000
\* `service_time_days > 2.0`, in hundredths of a day
SlowDays == 200

(****************************** helpers ************************************)
RECURSIVE SumSeq(_)
SumSeq(s) == IF s = <<>> THEN 0 ELSE Head(s) + SumSeq(Tail(s))

Abs(n) == IF n < 0 THEN -n ELSE n

RECURSIVE GCD(_, _)
GCD(a, b) == IF b = 0 THEN a ELSE GCD(b, a % b)

RECURSIVE SetGCD(_)
SetGCD(S) ==
    IF S = {} THEN 0
    ELSE LET v == CHOOSE v \in S : TRUE IN GCD(Abs(v), SetGCD(S \ {v}))

SetMax(S) == CHOOSE v \in S : \A w \in S : w <= v
SetMin(S) == CHOOSE v \in S : \A w \in S : v <= w

Range(s) == {s[i] : i \in 1..Len(s)}

\* Python round(value, 2) of a micro-dollar amount, in cents: to nearest, ties to even
Round2(m) ==
    LET a == Abs(m)
        q == a \div CentMicro
        r == a % CentMicro
        up == (2 * r > CentMicro) \/ (2 * r = CentMicro /\ q % 2 = 1)
        v == IF up THEN q + 1 ELSE q
    IN  IF m < 0 THEN -v ELSE v


(************************** the input tables *******************************)
\* identifiers are numbers; a table of n rows holds the ids 1..n
CapVals == {-Unit, 0, MaxQty * Unit}
DemVals == {q * Unit : q \in 0..MaxQty}
CostVals == {-1, 1, UNMET_PENALTY, UNMET_PENALTY + 1}
Regions == {"R1", "R2"}

DcRow(i, cap) == [dc_id |-> i, weekly_capacity |-> cap]
StoreRow(s, dem, reg) == [store_id |-> s, weekly_demand |-> dem, region |-> reg]
\* the transit time of the lane from DC i to store s, in hundredths of a day:
\* 2.0 days on (1,1), 3.0 on (1,2), 2.01 on (2,1), 1.0 on (2,2)
ServiceDays(i, s) ==
    CASE i = 1 /\ s = 1 -> SlowDays
      [] i = 1 /\ s = 2 -> 300
      [] i = 2 /\ s = 1 -> SlowDays + 1
      [] OTHER -> 100 * (1 + ((i + s + 2) % 3))
LaneRow(i, s, cost) ==
    [dc_id |-> i, store_id |-> s, cost_per_unit_usd |-> cost,
     service_time_days |-> ServiceDays(i, s)]

DcTables ==
    UNION {{[i \in 1..n |-> DcRow(i, f[i])] : f \in [1..n -> CapVals]} : n \in 1..MaxDCs}

\* the store of id s lies in region "R1" when s is odd and in "R2" when s is even
RegionOf(s) == IF s % 2 = 1 THEN "R1" ELSE "R2"

StoreTables ==
    UNION {{[s \in 1..n |-> StoreRow(s, f[s], RegionOf(s))] : f \in [1..n -> DemVals]}
           : n \in 1..MaxStores}

LaneRows == {LaneRow(i, s, c) : i \in 1..MaxDCs, s \in 1..MaxStores, c \in CostVals}

\* clean_tables aggregates by (dc_id, store_id): pairs are unique and sorted
LaneKey(l) == l.dc_id * (MaxStores + 1) + l.store_id
LaneTables ==
    {t \in UNION {[1..n -> LaneRows] : n \in 0..MaxLanes} :
        \A i \in 1..Len(t) : \A j \in 1..Len(t) : i < j => LaneKey(t[i]) < LaneKey(t[j])}

(************************ reading the tables *******************************)
\* stores["store_id"].tolist(), dcs["dc_id"].tolist()
store_ids(st) == [k \in 1..Len(st) |-> st[k].store_id]
dc_ids(dc) == [k \in 1..Len(dc) |-> dc[k].dc_id]
\* set_index(...).to_dict(): the last row of an id wins
demand(st, s) == st[SetMax({k \in 1..Len(st) : st[k].store_id = s})].weekly_demand
capacity(dc, i) == dc[SetMax({k \in 1..Len(dc) : dc[k].dc_id = i})].weekly_capacity
\* list(zip(transport["dc_id"], transport["store_id"]))
pairs(tr) == [j \in 1..Len(tr) |-> <<tr[j].dc_id, tr[j].store_id>>]
\* {s: k for k, s in enumerate(ids)}: the last position of an id wins
IndexOf(ids, v) == SetMax({k \in 1..Len(ids) : ids[k] = v})
Known(ids, v) == \E k \in 1..Len(ids) : ids[k] = v

(********************* building the linear program *************************)
\* the objective with the unmet-demand variables left free of charge
Objective_NoPenalty(tr, st, penalty) ==
    [j \in 1..(Len(tr) + Len(st)) |->
        IF j <= Len(tr) THEN tr[j].cost_per_unit_usd ELSE 0]

\* c = concatenate([c_ship, c_unmet])
Objective(tr, st, penalty) ==
    [j \in 1..(Len(tr) + Len(st)) |->
        IF j <= Len(tr) THEN tr[j].cost_per_unit_usd ELSE penalty]

\* the demand rows without the loop over the lanes
A_eq_NoLanes(tr, st) ==
    [k \in 1..Len(st) |->
        [j \in 1..(Len(tr) + Len(st)) |-> IF j = Len(tr) + k THEN 1 ELSE 0]]

\* the demand rows without the unmet-demand variables
A_eq_NoUnmet(tr, st) ==
    [k \in 1..Len(st) |->
        [j \in 1..(Len(tr) + Len(st)) |->
            IF j <= Len(tr) /\ tr[j].store_id = st[k].store_id THEN 1 ELSE 0]]

\* optimization.run: a lane enters the row of its store only `if st in store_index`
A_eq(tr, st) ==
    LET ids == store_ids(st)
        n_ship == Len(tr)
    IN  [k \in 1..Len(st) |->
            [j \in 1..(n_ship + Len(st)) |->
                IF j <= n_ship
                THEN IF Known(ids, tr[j].store_id) /\ IndexOf(ids, tr[j].store_id) = k
                     THEN 1 ELSE 0
                ELSE IF j = n_ship + k THEN 1 ELSE 0]]

b_eq(st) == [k \in 1..Len(st) |-> demand(st, st[k].store_id)]

\* the capacity rows without the loop over the lanes
A_ub_NoLanes(tr, dc, st) ==
    [k \in 1..Len(dc) |-> [j \in 1..(Len(tr) + Len(st)) |-> 0]]

\* optimization.run: a lane enters the row of its DC only `if dc in dc_index`
A_ub(tr, dc, st) ==
    LET ids == dc_ids(dc)
        n_ship == Len(tr)
    IN  [k \in 1..Len(dc) |->
            [j \in 1..(n_ship + Len(st)) |->
                IF j <= n_ship /\ Known(ids, tr[j].dc_id) /\ IndexOf(ids, tr[j].dc_id) = k
                THEN 1 ELSE 0]]

\* for i, k in dc_index.items(): b_ub[k] = capacity[i]
b_ub(dc) ==
    LET ids == dc_ids(dc)
    IN  [k \in 1..Len(dc) |->
            IF IndexOf(ids, ids[k]) = k THEN capacity(dc, ids[k]) ELSE 0]

\* model.optimization.run indexes s_idx[st] and d_idx[dc] unguarded: KeyError on a stray id
BuildKeyError(tr, dc, st) ==
    \E j \in 1..Len(tr) :
        \/ ~Known(store_ids(st), tr[j].store_id)
        \/ ~Known(dc_ids(dc), tr[j].dc_id)


(*************************** the LP solver *********************************)
(* scipy.optimize.linprog(method="highs") with bounds (0, None): it        *)
(* reports failure for an infeasible or unbounded program and otherwise    *)
(* returns some optimal assignment; which one, when several are optimal,   *)
(* is the solver's choice.  Candidate values lie within NoiseTicks of the  *)
(* multiples of the greatest common divisor of the right-hand sides, which *)
(* include a vertex of every program built here.                           *)
Dot(row, v) == SumSeq([j \in 1..Len(row) |-> row[j] * v[j]])

Feasible(v, Aub, bub, Aeq, beq) ==
    /\ \A j \in 1..Len(v) : v[j] >= 0
    /\ \A k \in 1..Len(beq) : Dot(Aeq[k], v) = beq[k]
    /\ \A k \in 1..Len(bub) : Dot(Aub[k], v) <= bub[k]

Grid(bub, beq) ==
    LET rhs == Range(bub) \cup Range(beq)
        top == SetMax(rhs \cup {0})
        g == SetGCD(rhs)
        q == IF g = 0 THEN 1 ELSE g
    IN  {v \in {k * q + e : k \in 0..(top \div q), e \in (-NoiseTicks)..NoiseTicks} :
            v >= 0 /\ v <= top}

\* the spacing of the vertex grid: the gcd of the right-hand sides
Step(bub, beq) ==
    LET g == SetGCD(Range(bub) \cup Range(beq))
    IN  IF g = 0 THEN 1 ELSE g

\* the assignments of the first j variables, drawn from V, that no row of
\* non-negative coefficients already rules out
RECURSIVE Leading(_, _, _, _, _, _)
Leading(j, V, Aub, bub, Aeq, beq) ==
    IF j = 0
    THEN {<<>>}
    ELSE LET Fits(x, A, b) ==
                 \A k \in 1..Len(b) :
                     (\A i \in 1..Len(A[k]) : A[k][i] >= 0)
                         => SumSeq([i \in 1..j |-> A[k][i] * x[i]]) <= b[k]
         IN  UNION {{y \in {Append(x, v) : v \in V} : Fits(y, Aub, bub) /\ Fits(y, Aeq, beq)}
                    : x \in Leading(j - 1, V, Aub, bub, Aeq, beq)}

\* the largest sum of the magnitudes of one row's coefficients
RowWeight(Aub, Aeq) ==
    SetMax({SumSeq([j \in 1..Len(Aub[k]) |-> Abs(Aub[k][j])]) : k \in 1..Len(Aub)}
           \cup {SumSeq([j \in 1..Len(Aeq[k]) |-> Abs(Aeq[k][j])]) : k \in 1..Len(Aeq)}
           \cup {1})

\* the trailing Len(beq) variables: fixed by the equality rows, or left at zero.
\* Where the grid is coarser than the noise a row can add up, a feasible point
\* is a feasible vertex plus noise, and its cost is within the noise of that
\* vertex's: only the vertices that close to the best one are expanded.
Candidates(c, Aub, bub, Aeq, beq) ==
    LET n == Len(c)
        n_eq == Len(beq)
        n_free == n - n_eq
        q == Step(bub, beq)
        top == SetMax(Range(bub) \cup Range(beq) \cup {0})
        W == RowWeight(Aub, Aeq)
        Lead(x, k) == SumSeq([j \in 1..n_free |-> Aeq[k][j] * x[j]])
        Vec(x, fixed) ==
            [j \in 1..n |-> IF j <= n_free THEN x[j]
                            ELSE IF fixed THEN beq[j - n_free] - Lead(x, j - n_free)
                            ELSE 0]
        Around(x) ==
            {y \in {[j \in 1..n_free |-> x[j] + e[j]] : e \in [1..n_free -> (-NoiseTicks)..NoiseTicks]} :
                \A j \in 1..n_free : y[j] >= 0 /\ y[j] <= top}
        margin == NoiseTicks * (W + 1) * SumSeq([j \in 1..n |-> Abs(c[j])])
    IN  IF q > NoiseTicks * W
        THEN LET B == Leading(n_free, {k * q : k \in 0..(top \div q)}, Aub, bub, Aeq, beq)
                 vertices == {p \in B \X BOOLEAN : Feasible(Vec(p[1], p[2]), Aub, bub, Aeq, beq)}
             IN  IF vertices = {}
                 THEN {}
                 ELSE LET best == SetMin({Dot(c, Vec(p[1], p[2])) : p \in vertices})
                          near == {p \in vertices : Dot(c, Vec(p[1], p[2])) <= best + margin}
                      IN  UNION {{Vec(y, p[2]) : y \in Around(p[1])} : p \in near}
        ELSE {Vec(x, fixed) : x \in [1..n_free -> Grid(bub, beq)], fixed \in BOOLEAN}

\* a variable of negative cost that no row bounds
FreeRay(c, Aub, Aeq) ==
    \E j \in 1..Len(c) :
        /\ c[j] < 0
        /\ \A k \in 1..Len(Aub) : Aub[k][j] = 0
        /\ \A k \in 1..Len(Aeq) : Aeq[k][j] = 0

NoResult == [success |-> FALSE, status |-> -1, message |-> "", x |-> <<>>]

\* the optimal assignments of the program given by its five arrays
Optimal(c, Aub, bub, Aeq, beq) ==
    LET feas == {v \in Candidates(c, Aub, bub, Aeq, beq) : Feasible(v, Aub, bub, Aeq, beq)}
    IN  IF feas = {}
        THEN {[success |-> FALSE, status |-> 2, message |-> "infeasible", x |-> <<>>]}
        ELSE IF FreeRay(c, Aub, Aeq)
        THEN {[success |-> FALSE, status |-> 3, message |-> "unbounded", x |-> <<>>]}
        ELSE LET best == SetMin({Dot(c, v) : v \in feas})
             IN  {[success |-> TRUE, status |-> 0, message |-> "optimal", x |-> v]
                  : v \in {w \in feas : Dot(c, w) = best}}

\* linprog(c=c, A_ub=A_ub, b_ub=b_ub, A_eq=A_eq, b_eq=b_eq, ...): the arrays are
\* built once and handed over as values
linprog(c, Aub, bub, Aeq, beq) ==
    UNION {Optimal(p[1], p[2], p[3], p[4], p[5]) : p \in {<<c, Aub, bub, Aeq, beq>>}}

(************************ extracting the solution **************************)
\* x = res.x[:n_ship]; u = res.x[n_ship:]
ShipPart(x, n_ship) == [j \in 1..n_ship |-> x[j]]
UnmetPart(x, n_ship) == [k \in 1..(Len(x) - n_ship) |-> x[n_ship + k]]

\* the test written `qty >= 1e-6`
Keep_AtTolerance(qty) == qty >= Tol

\* the loop over enumerate(pairs): one row per lane with qty > 1e-6
Keep(qty) == qty > Tol

FlowRow(tr, x, idx) ==
    [dc_id |-> pairs(tr)[idx][1],
     store_id |-> pairs(tr)[idx][2],
     units_assigned |-> x[idx],
     cost_per_unit_usd |-> tr[idx].cost_per_unit_usd,
     flow_cost_usd |-> x[idx] * tr[idx].cost_per_unit_usd]

RECURSIVE FlowsFrom(_, _, _)
FlowsFrom(tr, x, idx) ==
    IF idx > Len(tr) THEN <<>>
    ELSE (IF Keep(x[idx]) THEN <<FlowRow(tr, x, idx)>> ELSE <<>>) \o FlowsFrom(tr, x, idx + 1)

Flows(tr, x) == FlowsFrom(tr, x, 1)

\* the unmet rows of the stores that have unmet units only
UnmetRows_Positive(st, u) ==
    SelectSeq([k \in 1..Len(st) |-> [store_id |-> store_ids(st)[k], unmet_units |-> u[k]]],
              LAMBDA r : r.unmet_units > 0)

\* pd.DataFrame({"store_id": store_ids, "unmet_units": u})
UnmetRows(st, u) == [k \in 1..Len(st) |-> [store_id |-> store_ids(st)[k], unmet_units |-> u[k]]]

(*************************** derived metrics *******************************)
\* flows_df.groupby("dc_id")["units_assigned"].sum(), left-merged, fillna(0)
Assigned(flows, i) ==
    SumSeq([k \in 1..Len(flows) |-> IF flows[k].dc_id = i THEN flows[k].units_assigned ELSE 0])

\* (units_assigned / weekly_capacity * 100).round(2), in hundredths of a percent;
\* 0/0 is NaN and a positive quantity over 0 is inf
Pct(a, cap) ==
    IF cap = 0
    THEN [kind |-> IF a = 0 THEN "nan" ELSE "inf", val |-> 0]
    ELSE LET c == Abs(cap)
             q0 == a \div c
             r0 == a % c
             q1 == (r0 * 100) \div c
             r1 == (r0 * 100) % c
             q2 == (r1 * 100) \div c
             r2 == (r1 * 100) % c
             whole == q0 * 10000 + q1 * 100 + q2
             up == (2 * r2 > c) \/ (2 * r2 = c /\ whole % 2 = 1)
             v == IF up THEN whole + 1 ELSE whole
         IN  [kind |-> "num", val |-> IF cap < 0 THEN -v ELSE v]

UtilRows(dc, flows) ==
    [k \in 1..Len(dc) |->
        [dc_id |-> dc[k].dc_id,
         weekly_capacity |-> dc[k].weekly_capacity,
         units_assigned |-> Assigned(flows, dc[k].dc_id),
         utilization_pct |-> Pct(Assigned(flows, dc[k].dc_id), dc[k].weekly_capacity)]]


\* penalty_cost = (unmet_df["unmet_units"] * UNMET_PENALTY).sum()
PenaltyCost(unmet, penalty) == SumSeq([k \in 1..Len(unmet) |-> unmet[k].unmet_units * penalty])
\* flows_df["flow_cost_usd"].sum()
TransportCost(flows) == SumSeq([k \in 1..Len(flows) |-> flows[k].flow_cost_usd])

KpiRows(flows, unmet, dc, st, penalty) ==
    << [metric |-> "total_transport_cost_usd", value |-> Round2(TransportCost(flows))],
       [metric |-> "unmet_penalty_usd", value |-> Round2(PenaltyCost(unmet, penalty))],
       [metric |-> "total_cost_with_penalty_usd",
        value |-> Round2(TransportCost(flows) + PenaltyCost(unmet, penalty))],
       [metric |-> "total_units",
        value |-> SumSeq([k \in 1..Len(st) |->
                     IF IndexOf(store_ids(st), st[k].store_id) = k
                     THEN demand(st, st[k].store_id) ELSE 0])],
       [metric |-> "num_dcs", value |-> Len(dc)],
       [metric |-> "num_stores", value |-> Len(st)],
       [metric |-> "lp_status", value |-> "optimal"] >>


(****************************** the solve **********************************)
NoFile == [present |-> FALSE, rows |-> <<>>]
File(rows) == [present |-> TRUE, rows |-> rows]

\* a raise placed after the Flows were written
Raise_AfterFlows(kind, text) ==
    /\ raised' = kind
    /\ message' = text
    /\ optimal_flows' = File(<<>>)
    /\ UNCHANGED <<unmet_demand, dc_utilization, kpi_summary>>

\* what run() leaves behind when it raises: nothing was written before the raise
Raise(kind, text) ==
    /\ raised' = kind
    /\ message' = text
    /\ UNCHANGED outputs

\* the four to_csv calls of a run that reaches its end
Persist(dc, st, flows, unmet, penalty) ==
    /\ optimal_flows' = File(flows)
    /\ unmet_demand' = File(unmet)
    /\ dc_utilization' = File(UtilRows(dc, flows))
    /\ kpi_summary' = File(KpiRows(flows, unmet, dc, st, penalty))
    /\ raised' = "none"
    /\ message' = ""

\* from the linprog call to the end of run(), on the tables dc, st as read
SolveAndPersist(dc, st, penalty) ==
    \E r \in linprog(Objective(transport, st, penalty),
                     A_ub(transport, dc, st), b_ub(dc),
                     A_eq(transport, st), b_eq(st)) :
        /\ res' = r
        /\ n_calls' = 1
        /\ IF ~r.success
           THEN Raise("RuntimeError", r.message)
           ELSE LET flows == Flows(transport, ShipPart(r.x, Len(transport)))
                    unmet == UnmetRows(st, UnmetPart(r.x, Len(transport)))
                IN  IF flows = <<>>
                    \* pd.DataFrame([]) has no column "units_assigned"
                    THEN Raise("KeyError", "units_assigned")
                    ELSE Persist(dc, st, flows, unmet, penalty)

\* optimization.run (src/optimization.py) on the tables dc, st
OptRun(dc, st) ==
    /\ entry' = "optimization"
    /\ SolveAndPersist(dc, st, UNMET_PENALTY)

\* model.optimization.run (src/model/optimization.py) on the tables dc, st
ModelOptRun(dc, st) ==
    /\ entry' = "model.optimization"
    /\ IF BuildKeyError(transport, dc, st)
       THEN /\ res' = NoResult
            /\ n_calls' = 0
            /\ Raise("KeyError", "stray id")
       ELSE SolveAndPersist(dc, st, CFG_UNMET_PENALTY)

RunOpt ==
    /\ n_runs < MaxRuns
    /\ n_runs' = n_runs + 1
    /\ caller' = "optimization"
    /\ UNCHANGED <<inputs, n_scen, levers, applied, derived, an_raised, n_an, api, present, chat>>
    /\ OptRun(dcs, stores)

RunModelOpt ==
    /\ n_runs < MaxRuns
    /\ n_runs' = n_runs + 1
    /\ caller' = "model.optimization"
    /\ UNCHANGED <<inputs, n_scen, levers, applied, derived, an_raised, n_an, api, present, chat>>
    /\ ModelOptRun(dcs, stores)

(**************************** analytics.run *******************************)
\* the ascending sequence of a finite set of numbers: groupby sorts its keys
RECURSIVE SortedSeq(_)
SortedSeq(S) == IF S = {} THEN <<>> ELSE <<SetMin(S)>> \o SortedSeq(S \ {SetMin(S)})

\* sort_values("flow_cost_usd", ascending=False) sorts with numpy's quicksort,
\* which is not stable.  Rows of equal cost keep their order where the build
\* finishes with an insertion sort (its introsort on up to 17 rows) and are
\* permuted where it partitions; here a tie of two rows is kept or reversed.
TieOrders == {"kept", "reversed"}
RECURSIVE InsertDesc(_, _, _)
InsertDesc(sorted, r, kept) ==
    IF sorted = <<>> THEN <<r>>
    ELSE IF \/ Head(sorted).flow_cost_usd > r.flow_cost_usd
            \/ kept /\ Head(sorted).flow_cost_usd = r.flow_cost_usd
         THEN <<Head(sorted)>> \o InsertDesc(Tail(sorted), r, kept)
         ELSE <<r>> \o sorted
RECURSIVE SortDescBy(_, _)
SortDescBy(rows, kept) ==
    IF rows = <<>> THEN <<>>
    ELSE InsertDesc(SortDescBy(SubSeq(rows, 1, Len(rows) - 1), kept), rows[Len(rows)], kept)
SortDesc(rows) == SortDescBy(rows, ties = "kept")

\* flows.groupby("dc_id")["flow_cost_usd"].sum(), sorted by cost descending
CostByDc(flows) ==
    LET keys == SortedSeq({flows[k].dc_id : k \in 1..Len(flows)})
    IN  SortDesc([g \in 1..Len(keys) |->
            [dc_id |-> keys[g],
             flow_cost_usd |-> SumSeq([k \in 1..Len(flows) |->
                 IF flows[k].dc_id = keys[g] THEN flows[k].flow_cost_usd ELSE 0])]])

\* flows.groupby("dc_id")["store_id"].nunique()
Served(flows) ==
    LET keys == SortedSeq({flows[k].dc_id : k \in 1..Len(flows)})
    IN  [g \in 1..Len(keys) |->
            [dc_id |-> keys[g],
             stores_served |-> Cardinality({flows[k].store_id :
                                   k \in {m \in 1..Len(flows) : flows[m].dc_id = keys[g]}})]]

\* the regions in the order groupby puts them
RegionRank(r) == IF r = "R1" THEN 1 ELSE 2
RegionAt(n) == IF n = 1 THEN "R1" ELSE "R2"

\* flows.merge(stores[["store_id", "region"]], how="left").groupby("region"):
\* a Flow into a store the Store table does not hold has no region and is dropped
CostByRegion(flows, st) ==
    LET CostIn(r) ==
            SumSeq([k \in 1..Len(flows) |->
                flows[k].flow_cost_usd *
                    Cardinality({j \in 1..Len(st) :
                        st[j].store_id = flows[k].store_id /\ st[j].region = r})])
        keys == SortedSeq({RegionRank(st[j].region) :
                    j \in {m \in 1..Len(st) :
                        \E k \in 1..Len(flows) : flows[k].store_id = st[m].store_id}})
    IN  SortDesc([g \in 1..Len(keys) |->
            [region |-> RegionAt(keys[g]), flow_cost_usd |-> CostIn(RegionAt(keys[g]))]])

\* flows.merge(transport[["dc_id","store_id","service_time_days"]], how="left"):
\* one row per matching lane, or one row without transit time when no lane matches
ServRow(f, days) ==
    [dc_id |-> f.dc_id, store_id |-> f.store_id, units_assigned |-> f.units_assigned,
     cost_per_unit_usd |-> f.cost_per_unit_usd, flow_cost_usd |-> f.flow_cost_usd,
     service_time_days |-> days]
NaN == -1
RECURSIVE FlowsServ(_, _)
FlowsServ(flows, tr) ==
    IF flows = <<>> THEN <<>>
    ELSE LET f == Head(flows)
             hits == SelectSeq(tr, LAMBDA l : l.dc_id = f.dc_id /\ l.store_id = f.store_id)
         IN  (IF hits = <<>> THEN <<ServRow(f, NaN)>>
              ELSE [j \in 1..Len(hits) |-> ServRow(f, hits[j].service_time_days)])
             \o FlowsServ(Tail(flows), tr)

\* the test written `service_time_days >= 2.0`
IsSlow_AtThreshold(days) == days # NaN /\ days >= SlowDays

\* flows_serv["service_time_days"] > 2.0; a missing transit time compares false
IsSlow(days) == days # NaN /\ days > SlowDays

Slow(flows_serv) == SelectSeq(flows_serv, LAMBDA r : IsSlow(r.service_time_days))

\* 100.0 * a / d as the fraction num / den in lowest terms
Pct100(a, d) ==
    LET g1 == GCD(a, d)
        a1 == a \div g1
        d1 == d \div g1
        g2 == GCD(100, d1)
    IN  [num |-> a1 * (100 \div g2), den |-> d1 \div g2]

\* max(flows["units_assigned"].sum(), 1.0)
UnitsFloor(total) == IF total > Unit THEN total ELSE Unit

SlowKpis(slow, flows) ==
    LET on_slow == SumSeq([k \in 1..Len(slow) |-> slow[k].units_assigned])
        total == SumSeq([k \in 1..Len(flows) |-> flows[k].units_assigned])
    IN  << [slow_lanes_count |-> Len(slow),
            units_on_slow_lanes |-> on_slow,
            pct_units_on_slow_lanes |-> Pct100(on_slow, UnitsFloor(total))] >>

\* a builder that appends to the rollups its earlier run left
AnalyticsRun_Appending(f, st, tr) ==
    /\ n_an' = n_an + 1
    /\ IF ~f.present
       THEN /\ an_raised' = "FileNotFoundError"
            /\ UNCHANGED derived
       ELSE /\ an_raised' = "none"
            /\ cost_by_dc' = File(cost_by_dc.rows \o CostByDc(f.rows))
            /\ stores_served_by_dc' = File(Served(f.rows))
            /\ cost_by_region' = File(cost_by_region.rows \o CostByRegion(f.rows, st))
            /\ slow_lanes_detail' = File(Slow(FlowsServ(f.rows, tr)))
            /\ slow_lanes_kpis' = File(SlowKpis(Slow(FlowsServ(f.rows, tr)), f.rows))

\* analytics.run on the files f (Flows), st, tr as it finds them
AnalyticsRun(f, st, tr) ==
    /\ n_an' = n_an + 1
    /\ IF ~f.present
       THEN /\ an_raised' = "FileNotFoundError"
            /\ UNCHANGED derived
       ELSE /\ an_raised' = "none"
            /\ cost_by_dc' = File(CostByDc(f.rows))
            /\ stores_served_by_dc' = File(Served(f.rows))
            /\ cost_by_region' = File(CostByRegion(f.rows, st))
            /\ slow_lanes_detail' = File(Slow(FlowsServ(f.rows, tr)))
            /\ slow_lanes_kpis' = File(SlowKpis(Slow(FlowsServ(f.rows, tr)), f.rows))

\* analytics.py run as a script
RunAnalytics ==
    /\ n_an < MaxAn
    /\ caller' = "analytics"
    /\ UNCHANGED <<inputs, outputs, res, raised, message, n_calls, entry, n_runs, n_scen,
                   levers, applied, api, present, chat>>
    /\ AnalyticsRun(optimal_flows, stores, transport)

(**************************** rollup queries *******************************)
\* the dashboard endpoints cost_by_dc / cost_by_region and the handlers of the same
\* name in answer_engine_sql run
\*     SELECT ... FROM <table> ORDER BY flow_cost_usd {ASC|DESC} LIMIT :n
\* on the copy of the CSV that refresh_from_csvs loaded, row by row, into SQLite
NoQuery == [table |-> "none", order |-> "desc", n |-> 0]
Orders == {"desc", "asc"}

\* SQLite returns rows of equal sort key in the order of their insertion
RECURSIVE SqlInsert(_, _, _)
SqlInsert(sorted, r, order) ==
    IF sorted = <<>> THEN <<r>>
    ELSE IF \/ Head(sorted).flow_cost_usd = r.flow_cost_usd
            \/ order = "desc" /\ Head(sorted).flow_cost_usd > r.flow_cost_usd
            \/ order = "asc" /\ Head(sorted).flow_cost_usd < r.flow_cost_usd
         THEN <<Head(sorted)>> \o SqlInsert(Tail(sorted), r, order)
         ELSE <<r>> \o sorted
RECURSIVE OrderBy(_, _)
OrderBy(rows, order) ==
    IF rows = <<>> THEN <<>>
    ELSE SqlInsert(OrderBy(SubSeq(rows, 1, Len(rows) - 1), order), rows[Len(rows)], order)

Limit(rows, n) == SubSeq(rows, 1, IF n < Len(rows) THEN n ELSE Len(rows))

\* order_sql = "DESC" if order.lower() != "asc" else "ASC"; a missing table is an
\* error that safe_query turns into no records
Query(name, f) ==
    /\ \E order \in Orders : \E n \in 1..MaxDCs :
        /\ asked' = [table |-> name, order |-> order, n |-> n]
        /\ shown' = IF f.present THEN Limit(OrderBy(f.rows, order), n) ELSE <<>>
    /\ UNCHANGED <<inputs, outputs, derived, res, raised, message, n_calls, entry, n_runs,
                   n_scen, levers, applied, caller, an_raised, n_an, api, ties, chat>>

QueryCostByDc == Query("cost_by_dc", cost_by_dc)
QueryCostByRegion == Query("cost_by_region", cost_by_region)

(***************************** scenario runs *******************************)
\* a scenario: two sparse mappings, DC id -> multiplier and region -> multiplier
MultVals == {-1, 0, 2}
SparseMaps(Keys) ==
    UNION {[D -> MultVals] : D \in {S \in SUBSET Keys : Cardinality(S) <= MaxLeverKeys}}
Levers ==
    [dc_capacity_mult : SparseMaps(1..MaxDCs), region_demand_mult : SparseMaps(Regions)]
\* Scenario(): both mappings default to {}
NoLevers == [dc_capacity_mult |-> <<>>, region_demand_mult |-> <<>>]

\* the scaled capacity clamped at zero
ScaledDcs_Clamped(dc, m) ==
    [k \in 1..Len(dc) |->
        IF dc[k].dc_id \in DOMAIN m
        THEN [dc[k] EXCEPT !.weekly_capacity =
                 IF @ * m[dc[k].dc_id] < 0 THEN 0 ELSE @ * m[dc[k].dc_id]]
        ELSE dc[k]]

\* dcs.loc[dcs["dc_id"] == dc_id, "weekly_capacity"] *= float(mult), for each item
ScaledDcs(dc, m) ==
    [k \in 1..Len(dc) |->
        IF dc[k].dc_id \in DOMAIN m
        THEN [dc[k] EXCEPT !.weekly_capacity = @ * m[dc[k].dc_id]]
        ELSE dc[k]]

\* stores.loc[stores["region"] == region, "weekly_demand"] *= float(mult), for each item
ScaledStores(st, m) ==
    [k \in 1..Len(st) |->
        IF st[k].region \in DOMAIN m
        THEN [st[k] EXCEPT !.weekly_demand = @ * m[st[k].region]]
        ELSE st[k]]

\* the levers applied to copies that are never written back
ApplyLevers_NotWritten(cfg) == UNCHANGED <<dcs, stores, transport>>

\* apply_scenario / the head of run_scenario: mutate, then write both tables back
ApplyLevers(cfg) ==
    /\ dcs' = ScaledDcs(dcs, cfg.dc_capacity_mult)
    /\ stores' = ScaledStores(stores, cfg.region_demand_mult)
    /\ UNCHANGED transport

\* one call: its mappings and the two tables as it read them
Call(cfg) == [cfg |-> cfg, dcs |-> dcs, stores |-> stores]

\* model.run_pipeline.run_scenario(levers): the solve reads the tables just written
RunScenario ==
    /\ n_scen < MaxScen
    /\ n_scen' = n_scen + 1
    /\ caller' = "run_scenario"
    /\ UNCHANGED <<n_runs, derived, an_raised, n_an, api, present, chat>>
    /\ \E cfg \in Levers :
        /\ levers' = cfg
        /\ applied' = Append(applied, Call(cfg))
        /\ ApplyLevers(cfg)
        /\ ModelOptRun(dcs', stores')

\* scenarios.py run as a script: apply_scenario(cfg), then optimization.run
ScenarioMain ==
    /\ n_scen < MaxScen
    /\ n_scen' = n_scen + 1
    /\ caller' = "scenarios"
    /\ UNCHANGED <<n_runs, api, present, chat>>
    /\ \E cfg \in Levers :
        /\ levers' = cfg
        /\ applied' = Append(applied, Call(cfg))
        /\ ApplyLevers(cfg)
        /\ OptRun(dcs', stores')
    \* run_an() is reached only when run_opt() returned
    /\ IF raised' = "none"
       THEN AnalyticsRun(optimal_flows', stores', transport')
       ELSE UNCHANGED <<derived, an_raised, n_an>>

(************************* fractional multipliers **************************)
(* `*= float(mult)` is a multiplication of binary floating-point numbers:  *)
(* float(mult) is the nearest representable number and the product is      *)
(* rounded to the nearest representable number, ties to even.  Products by *)
(* -1, 0 and 2 are exact.  For a multiplier num/den that is no such number *)
(* the rounding is modelled on significands of FloatBits bits (float64     *)
(* has 53).                                                                *)
RECURSIVE BitLen(_)
BitLen(n) == IF n = 0 THEN 0 ELSE 1 + BitLen(n \div 2)
RECURSIVE Pow2(_)
Pow2(k) == IF k = 0 THEN 1 ELSE 2 * Pow2(k - 1)

\* n / d rounded to the nearest integer, ties to even
RoundHalfEven(n, d) ==
    LET qv == n \div d
        r == n % d
    IN  IF 2 * r > d \/ (2 * r = d /\ qv % 2 = 1) THEN qv + 1 ELSE qv

\* the positive integer n rounded to FloatBits significant bits
RoundBits(n) ==
    LET s == BitLen(n) - FloatBits
    IN  IF s <= 0 THEN n ELSE RoundHalfEven(n, Pow2(s)) * Pow2(s)

\* float(num/den): the significand sig and the exponent exp of sig / 2^exp
RECURSIVE ScaleOf(_, _)
ScaleOf(m, k) ==
    IF m.num * Pow2(k) >= m.den * Pow2(FloatBits - 1) THEN k ELSE ScaleOf(m, k + 1)
Float(m) ==
    LET k == ScaleOf(m, 0)
    IN  [sig |-> RoundHalfEven(m.num * Pow2(k), m.den), exp |-> k]

RECURSIVE TrailingZeros(_)
TrailingZeros(n) == IF n % 2 = 1 THEN 0 ELSE 1 + TrailingZeros(n \div 2)

\* x * float(m) for x in ticks and a positive multiplier m
FloatMul(x, m) ==
    IF x = 0
    THEN 0
    ELSE LET f == Float(m)
             a == Abs(x)
             e == TrailingZeros(a)
             p == RoundBits((a \div Pow2(e)) * f.sig)
             v == IF e >= f.exp THEN p * Pow2(e - f.exp) ELSE p \div Pow2(f.exp - e)
         IN  IF x < 0 THEN -v ELSE v

\* the multipliers 0.9 and 1.1 of the documented example
ChainMults == {[num |-> 9, den |-> 10], [num |-> 11, den |-> 10]}
ChainMaps(Keys) ==
    UNION {[D -> ChainMults] : D \in {S \in SUBSET Keys : Cardinality(S) <= MaxLeverKeys}}
ChainLevers ==
    [dc_capacity_mult : ChainMaps(1..MaxDCs), region_demand_mult : ChainMaps(Regions)]

\* dcs.loc[dcs["dc_id"] == dc_id, "weekly_capacity"] *= float(mult), for each item
FloatScaledDcs(dc, m) ==
    [k \in 1..Len(dc) |->
        IF dc[k].dc_id \in DOMAIN m
        THEN [dc[k] EXCEPT !.weekly_capacity = FloatMul(@, m[dc[k].dc_id])]
        ELSE dc[k]]

\* stores.loc[stores["region"] == region, "weekly_demand"] *= float(mult), for each item
FloatScaledStores(st, m) ==
    [k \in 1..Len(st) |->
        IF st[k].region \in DOMAIN m
        THEN [st[k] EXCEPT !.weekly_demand = FloatMul(@, m[st[k].region])]
        ELSE st[k]]

\* the scenario applied to the tables as the first call read them
ApplyScenario_FromBaseline ==
    /\ n_scen < MaxChain
    /\ n_scen' = n_scen + 1
    /\ caller' = "apply_scenario"
    /\ \E cfg \in ChainLevers :
        LET base == IF applied = <<>> THEN Call(cfg) ELSE applied[1]
        IN  /\ levers' = cfg
            /\ applied' = Append(applied, Call(cfg))
            /\ dcs' = FloatScaledDcs(base.dcs, cfg.dc_capacity_mult)
            /\ stores' = FloatScaledStores(base.stores, cfg.region_demand_mult)
    /\ UNCHANGED <<transport, outputs, res, raised, message, n_calls, entry, n_runs,
                   derived, an_raised, n_an, api, present, chat>>

\* scenarios.apply_scenario(cfg): read both tables, multiply, write both back
ApplyScenario ==
    /\ n_scen < MaxChain
    /\ n_scen' = n_scen + 1
    /\ caller' = "apply_scenario"
    /\ \E cfg \in ChainLevers :
        /\ levers' = cfg
        /\ applied' = Append(applied, Call(cfg))
        /\ dcs' = FloatScaledDcs(dcs, cfg.dc_capacity_mult)
        /\ stores' = FloatScaledStores(stores, cfg.region_demand_mult)
    /\ UNCHANGED <<transport, outputs, res, raised, message, n_calls, entry, n_runs,
                   derived, an_raised, n_an, api, present, chat>>

(************************ requests to the API ******************************)
(* POST /scenario/run is a plain `def` endpoint: the server runs each      *)
(* request in a worker thread, and run_scenario takes no lock.  A request  *)
(* is therefore a sequence of steps, one per file it reads or writes, that *)
(* interleave with the steps of the other requests and with consumers      *)
(* reading the result files.                                               *)
Req == 1..MaxReq

NoLocals ==
    [cfg |-> NoLevers, dcs |-> <<>>, stores |-> <<>>, o_stores |-> <<>>, o_dcs |-> <<>>,
     flows |-> <<>>, unmet |-> <<>>, raised |-> "none"]
NotRead ==
    [read |-> FALSE, optimal_flows |-> NoFile, unmet_demand |-> NoFile,
     dc_utilization |-> NoFile, kpi_summary |-> NoFile]

\* the scenarios a request may carry: one key, DC 1 or region "R1", multiplier 0 or 2
ApiLevers ==
    {cfg \in Levers :
        /\ Cardinality(DOMAIN cfg.dc_capacity_mult) + Cardinality(DOMAIN cfg.region_demand_mult) = 1
        /\ DOMAIN cfg.dc_capacity_mult \subseteq {1}
        /\ DOMAIN cfg.region_demand_mult \subseteq {"R1"}
        /\ \A k \in DOMAIN cfg.dc_capacity_mult : cfg.dc_capacity_mult[k] \in {0, 2}
        /\ \A k \in DOMAIN cfg.region_demand_mult : cfg.region_demand_mult[k] \in {0, 2}}

ApiSteps == UNCHANGED <<transport, res, raised, message, n_calls, entry, n_runs, n_scen,
                        levers, applied, caller, derived, an_raised, n_an, present, chat>>

\* api_scenario_run -> run_scenario: read both tables, multiply in the local frames
ScRead(r) ==
    /\ pc[r] = "idle"
    /\ \E cfg \in ApiLevers :
        loc' = [loc EXCEPT ![r] = [@ EXCEPT !.cfg = cfg,
                                            !.dcs = ScaledDcs(dcs, cfg.dc_capacity_mult),
                                            !.stores = ScaledStores(stores, cfg.region_demand_mult)]]
    /\ pc' = [pc EXCEPT ![r] = "write_dcs"]
    /\ UNCHANGED <<dcs, stores, outputs, seen>>
    /\ ApiSteps

\* dcs.to_csv(CLEAN_DIR/"dcs_clean.csv")
ScWriteDcs(r) ==
    /\ pc[r] = "write_dcs"
    /\ dcs' = loc[r].dcs
    /\ pc' = [pc EXCEPT ![r] = "write_stores"]
    /\ UNCHANGED <<stores, outputs, loc, seen>>
    /\ ApiSteps

\* stores.to_csv(CLEAN_DIR/"stores_clean.csv")
ScWriteStores(r) ==
    /\ pc[r] = "write_stores"
    /\ stores' = loc[r].stores
    /\ pc' = [pc EXCEPT ![r] = "read_stores"]
    /\ UNCHANGED <<dcs, outputs, loc, seen>>
    /\ ApiSteps

\* opt_run(): stores = pd.read_csv(...)
OptReadStores(r) ==
    /\ pc[r] = "read_stores"
    /\ loc' = [loc EXCEPT ![r] = [@ EXCEPT !.o_stores = stores]]
    /\ pc' = [pc EXCEPT ![r] = "read_dcs"]
    /\ UNCHANGED <<dcs, stores, outputs, seen>>
    /\ ApiSteps

\* opt_run(): dcs = pd.read_csv(...)
OptReadDcs(r) ==
    /\ pc[r] = "read_dcs"
    /\ loc' = [loc EXCEPT ![r] = [@ EXCEPT !.o_dcs = dcs]]
    /\ pc' = [pc EXCEPT ![r] = "solve"]
    /\ UNCHANGED <<dcs, stores, outputs, seen>>
    /\ ApiSteps

\* opt_run(): build, solve, extract the Flows and write them, or raise
OptSolve(r) ==
    /\ pc[r] = "solve"
    /\ LET dc == loc[r].o_dcs
           st == loc[r].o_stores
       IN  \E sol \in linprog(Objective(transport, st, CFG_UNMET_PENALTY),
                              A_ub(transport, dc, st), b_ub(dc),
                              A_eq(transport, st), b_eq(st)) :
               LET flows == IF sol.success
                            THEN Flows(transport, ShipPart(sol.x, Len(transport)))
                            ELSE <<>>
               IN  IF BuildKeyError(transport, dc, st) \/ ~sol.success \/ flows = <<>>
                   THEN /\ loc' = [loc EXCEPT ![r] = [@ EXCEPT !.raised =
                                       IF BuildKeyError(transport, dc, st) \/ sol.success
                                       THEN "KeyError" ELSE "RuntimeError"]]
                        /\ pc' = [pc EXCEPT ![r] = "failed"]
                        /\ UNCHANGED optimal_flows
                   ELSE /\ loc' = [loc EXCEPT ![r] = [@ EXCEPT
                                       !.flows = flows,
                                       !.unmet = UnmetRows(st, UnmetPart(sol.x, Len(transport)))]]
                        /\ pc' = [pc EXCEPT ![r] = "write_unmet"]
                        /\ optimal_flows' = File(flows)
    /\ UNCHANGED <<dcs, stores, unmet_demand, dc_utilization, kpi_summary, seen>>
    /\ ApiSteps

\* unmet_df.to_csv(...)
WriteUnmet(r) ==
    /\ pc[r] = "write_unmet"
    /\ unmet_demand' = File(loc[r].unmet)
    /\ pc' = [pc EXCEPT ![r] = "write_util"]
    /\ UNCHANGED <<dcs, stores, optimal_flows, dc_utilization, kpi_summary, loc, seen>>
    /\ ApiSteps

\* util_df.to_csv(...)
WriteUtil(r) ==
    /\ pc[r] = "write_util"
    /\ dc_utilization' = File(UtilRows(loc[r].o_dcs, loc[r].flows))
    /\ pc' = [pc EXCEPT ![r] = "write_kpi"]
    /\ UNCHANGED <<dcs, stores, optimal_flows, unmet_demand, kpi_summary, loc, seen>>
    /\ ApiSteps

\* kpi.to_csv(...): the snapshot of this request is complete
WriteKpi(r) ==
    /\ pc[r] = "write_kpi"
    /\ kpi_summary' = File(KpiRows(loc[r].flows, loc[r].unmet, loc[r].o_dcs, loc[r].o_stores,
                                  CFG_UNMET_PENALTY))
    /\ pc' = [pc EXCEPT ![r] = "done"]
    /\ UNCHANGED <<dcs, stores, optimal_flows, unmet_demand, dc_utilization, loc, seen>>
    /\ ApiSteps

\* a consumer (an answer-engine handler) reads the result files
ReadOutputs ==
    /\ ~seen.read
    /\ seen' = [read |-> TRUE, optimal_flows |-> optimal_flows, unmet_demand |-> unmet_demand,
                dc_utilization |-> dc_utilization, kpi_summary |-> kpi_summary]
    /\ UNCHANGED <<dcs, stores, outputs, pc, loc>>
    /\ ApiSteps

(****************************** the router *********************************)
(* A question is a sequence of words separated by single blanks.  Each     *)
(* compiled pattern of _PATTERNS is given by the positions at which        *)
(* pat.search can start a match: a literal like `cost by region` is a run  *)
(* of adjacent words, `\b` holds exactly at the ends of a word, `.*` skips *)
(* any words, and a group [A-Z0-9_]+ under re.I takes one whole word.      *)
Words == {"total", "cost", "transport", "unmet", "units", "slow", "lanes", "highest",
          "lowest", "high", "low", "utilization", "by", "region", "dc", "which", "stores",
          "served", "list", "top", "3", "DC1"}
Digits == {"3"}
\* int(m.group(...))
IntOf(w) == CASE w = "3" -> 3
\* m.group("dc").upper()
Upper(w) ==
    CASE w = "total" -> "TOTAL" [] w = "cost" -> "COST" [] w = "transport" -> "TRANSPORT"
      [] w = "unmet" -> "UNMET" [] w = "units" -> "UNITS" [] w = "slow" -> "SLOW"
      [] w = "lanes" -> "LANES" [] w = "highest" -> "HIGHEST" [] w = "lowest" -> "LOWEST"
      [] w = "high" -> "HIGH" [] w = "low" -> "LOW" [] w = "utilization" -> "UTILIZATION"
      [] w = "by" -> "BY" [] w = "region" -> "REGION" [] w = "dc" -> "DC"
      [] w = "which" -> "WHICH" [] w = "stores" -> "STORES" [] w = "served" -> "SERVED"
      [] w = "list" -> "LIST" [] w = "top" -> "TOP" [] OTHER -> w

\* the positions where the words of q run through the sets of run, one after the other
Adjacent(q, run) ==
    {i \in 1..(Len(q) - Len(run) + 1) : \A j \in 1..Len(run) : q[i + j - 1] \in run[j]}
\* the positions of a word of first that has a word of later somewhere after it
Later(q, first, later) ==
    {i \in 1..Len(q) : q[i] \in first /\ \E j \in (i + 1)..Len(q) : q[j] \in later}

\* the entries of _PATTERNS in list order: intent and default args
Patterns ==
    << [intent |-> "total_cost", defaults |-> <<>>],
       [intent |-> "transport_cost", defaults |-> <<>>],
       [intent |-> "unmet_units", defaults |-> <<>>],
       [intent |-> "slow_lanes", defaults |-> [top |-> 5]],
       [intent |-> "highest_util_dc", defaults |-> <<>>],
       [intent |-> "lowest_util_dc", defaults |-> <<>>],
       [intent |-> "dc_util", defaults |-> <<>>],
       [intent |-> "cost_by_region", defaults |-> [order |-> "desc", top |-> 3]],
       [intent |-> "cost_by_region", defaults |-> [order |-> "desc", top |-> 1]],
       [intent |-> "cost_by_region", defaults |-> [order |-> "asc", top |-> 1]],
       [intent |-> "cost_by_dc", defaults |-> [order |-> "desc", top |-> 5]],
       [intent |-> "stores_served_by_dc", defaults |-> <<>>],
       [intent |-> "stores_for_dc", defaults |-> [top |-> 20]],
       [intent |-> "slow_lanes", defaults |-> <<>>] >>

\* where pat.search(q) can start for the k-th entry; empty when it finds nothing
Hits(k, q) ==
    CASE k = 1 -> Adjacent(q, <<{"cost"}>>)
      [] k = 2 -> Adjacent(q, <<{"transport"}, {"cost"}>>)
      [] k = 3 -> Later(q, {"unmet"}, {"units"})
      [] k = 4 -> Adjacent(q, <<{"slow"}, {"lanes"}>>)
      [] k = 5 -> Later(q, {"highest"}, {"utilization"})
      [] k = 6 -> Later(q, {"lowest"}, {"utilization"})
      [] k = 7 -> Later(q, {"utilization"}, Words)
      [] k = 8 -> Adjacent(q, <<{"cost"}, {"by"}, {"region"}>>)
      \* `cost\b(high|most)`: a word boundary cannot stand between "cost" and a letter
      [] k = 9 -> {}
      [] k = 10 -> {}
      [] k = 11 -> Adjacent(q, <<{"cost"}, {"by"}, {"dc"}>>)
      [] k = 12 -> Adjacent(q, <<{"stores"}, {"served"}, {"by"}, Words>>)
      [] k = 13 -> {i \in Adjacent(q, <<{"list"}, {"stores"}>>) : Len(q) > i + 1}
      [] k = 14 -> Adjacent(q, <<{"top"}, Digits, {"slow"}, {"lanes"}>>)

None == [name |-> "None", args |-> <<>>]

\* route(question)
route(q) ==
    LET matching == {k \in 1..Len(Patterns) : Hits(k, q) # {}}
    IN  IF matching = {}
        THEN None
        ELSE LET k == SetMin(matching)
                 i == SetMin(Hits(k, q))
                 intent == Patterns[k].intent
                 tops == Adjacent(q, <<{"top"}, Digits>>)
                 a0 == Patterns[k].defaults
                 a1 == IF intent \in {"slow_lanes", "cost_by_region", "cost_by_dc"} /\ tops # {}
                       THEN ("top" :> IntOf(q[SetMin(tops) + 1])) @@ a0
                       ELSE a0
                 a2 == IF intent \notin {"cost_by_region", "cost_by_dc"}
                       THEN a1
                       ELSE IF \E j \in 1..Len(q) : q[j] \in {"low", "lowest"}
                       THEN ("order" :> "asc") @@ a1
                       ELSE IF \E j \in 1..Len(q) : q[j] \in {"high", "highest", "top"}
                       THEN ("order" :> "desc") @@ a1
                       ELSE a1
                 a3 == IF k \in {7, 13}
                       THEN ("dc_id" :> Upper(q[Len(q)])) @@ a2
                       ELSE IF k = 12
                       THEN ("dc_id" :> Upper(q[i + 3])) @@ a2
                       ELSE a2
                 a4 == IF k = 14 THEN ("top" :> IntOf(q[i + 1])) @@ a3 ELSE a3
             IN  [name |-> intent, args |-> a4]

\* the keys of DISPATCH
DISPATCH ==
    {"total_cost", "transport_cost", "unmet_units", "highest_util_dc", "lowest_util_dc",
     "dc_util", "cost_by_region", "cost_by_dc", "slow_lanes", "stores_served_by_dc",
     "stores_for_dc"}

\* the questions asked: every sequence of at most MaxWords words, and one phrase per
\* entry of _PATTERNS made of the words of its pattern
TriggerPhrase ==
    << <<"total", "cost">>, <<"transport", "cost">>, <<"unmet", "units">>,
       <<"slow", "lanes">>, <<"highest", "utilization">>, <<"lowest", "utilization">>,
       <<"utilization", "DC1">>, <<"cost", "by", "region">>,
       <<"which", "region", "cost", "high">>, <<"which", "region", "cost", "low">>,
       <<"cost", "by", "dc">>, <<"stores", "served", "by", "DC1">>,
       <<"list", "stores", "DC1">>, <<"top", "3", "slow", "lanes">> >>
Questions ==
    UNION {[1..n -> Words] : n \in 0..MaxWords} \cup {TriggerPhrase[k] : k \in 1..Len(TriggerPhrase)}

NotRouted == [question |-> <<>>, intent |-> None, handler |-> "none"]

\* api_nlq: route the question, then look the intent's name up in DISPATCH.  route
\* keeps no state between requests: one request per behaviour shows them all.
Route ==
    /\ routed = NotRouted
    /\ \E q \in Questions :
        LET intent == route(q)
        IN  routed' = [question |-> q, intent |-> intent,
                       handler |-> IF intent = None THEN "none"
                                   ELSE IF intent.name \in DISPATCH THEN intent.name
                                   ELSE "no handler"]
    /\ UNCHANGED <<inputs, outputs, derived, res, raised, message, n_calls, entry, n_runs,
                   n_scen, levers, applied, caller, an_raised, n_an, api, present,
                   kpi_cache, answer>>

(*************************** the answer engine *****************************)
NotCached == [cached |-> FALSE, rows |-> <<>>]
NoAnswer == [name |-> "none", after |-> 0, raised |-> "none", metrics |-> <<>>]

\* _kpi_val(metric, default): the value of the first row of that metric
KpiVal(rows, metric, default) ==
    LET hits == {k \in 1..Len(rows) : rows[k].metric = metric}
    IN  IF hits = {} THEN default ELSE rows[SetMin(hits)].value

\* _kpi_df(): the memoized frame, or read_csv on the first call that succeeds
KpiFrame == IF kpi_cache.cached THEN kpi_cache.rows ELSE kpi_summary.rows
KpiLoads == kpi_cache.cached \/ kpi_summary.present

\* the solves started before the answer was given
Solves == n_runs + n_scen

\* total_cost and transport_cost: one value of the KPI frame
AskKpi(name, metric) ==
    /\ IF KpiLoads
       THEN /\ kpi_cache' = [cached |-> TRUE, rows |-> KpiFrame]
            /\ answer' = [name |-> name, after |-> Solves, raised |-> "none",
                          metrics |-> (metric :> KpiVal(KpiFrame, metric, 0))]
       ELSE /\ kpi_cache' = kpi_cache
            /\ answer' = [name |-> name, after |-> Solves, raised |-> "FileNotFoundError",
                          metrics |-> <<>>]
    /\ UNCHANGED <<inputs, outputs, derived, res, raised, message, n_calls, entry, n_runs,
                   n_scen, levers, applied, caller, an_raised, n_an, api, present, routed>>

AskTotalCost == AskKpi("total_cost", "total_cost_with_penalty_usd")
AskTransportCost == AskKpi("transport_cost", "total_transport_cost_usd")

\* unmet_units: the penalty from the KPI frame, the units from unmet_demand.csv read anew
AskUnmetUnits ==
    /\ IF KpiLoads
       THEN /\ kpi_cache' = [cached |-> TRUE, rows |-> KpiFrame]
            /\ answer' = [name |-> "unmet_units", after |-> Solves, raised |-> "none",
                          metrics |->
                            [unmet_units |->
                                IF unmet_demand.present
                                THEN SumSeq([k \in 1..Len(unmet_demand.rows) |->
                                                unmet_demand.rows[k].unmet_units])
                                ELSE 0,
                             unmet_penalty_usd |-> KpiVal(KpiFrame, "unmet_penalty_usd", 0)]]
       ELSE /\ kpi_cache' = kpi_cache
            /\ answer' = [name |-> "unmet_units", after |-> Solves,
                          raised |-> "FileNotFoundError", metrics |-> <<>>]
    /\ UNCHANGED <<inputs, outputs, derived, res, raised, message, n_calls, entry, n_runs,
                   n_scen, levers, applied, caller, an_raised, n_an, api, present, routed>>

\* reset_caches(): no run of the pipeline calls it
ResetCaches ==
    /\ kpi_cache' = NotCached
    /\ UNCHANGED <<inputs, outputs, derived, res, raised, message, n_calls, entry, n_runs,
                   n_scen, levers, applied, caller, an_raised, n_an, api, present, answer,
                   routed>>

(*************************** specifications ********************************)
InitBuild(D, S, L, T) ==
    /\ dcs \in D
    /\ stores \in S
    /\ transport \in L
    /\ optimal_flows = NoFile
    /\ unmet_demand = NoFile
    /\ dc_utilization = NoFile
    /\ kpi_summary = NoFile
    /\ res = NoResult
    /\ raised = "none"
    /\ message = ""
    /\ n_calls = 0
    /\ entry = "none"
    /\ n_runs = 0
    /\ n_scen = 0
    /\ levers = NoLevers
    /\ applied = <<>>
    /\ caller = "none"
    /\ cost_by_dc = NoFile
    /\ stores_served_by_dc = NoFile
    /\ cost_by_region = NoFile
    /\ slow_lanes_detail = NoFile
    /\ slow_lanes_kpis = NoFile
    /\ an_raised = "none"
    /\ n_an = 0
    /\ pc = [r \in Req |-> "idle"]
    /\ loc = [r \in Req |-> NoLocals]
    /\ seen = NotRead
    /\ ties \in T
    /\ shown = <<>>
    /\ asked = NoQuery
    /\ kpi_cache = NotCached
    /\ answer = NoAnswer
    /\ routed = NotRouted

\* every build sorts the tables of the default instance (13 DCs, 6 regions) stably
InitWith(D, S, L) == InitBuild(D, S, L, {"kept"})

\* single solves over every small table
Init == InitWith(DcTables, StoreTables, LaneTables)
Next == RunOpt \/ RunModelOpt
Spec == Init /\ [][Next]_vars

\* tables whose quantities are fractions of a unit (0.004 and 0.0044), as
\* scenario multipliers leave them
FracDcTables == {<<DcRow(1, 4000)>>}
FracStoreTables == {<<StoreRow(1, 4400, RegionOf(1))>>}
FracLaneTables == {t \in LaneTables : Len(t) <= 1}
InitFrac ==
    \/ InitWith(DcTables, StoreTables, LaneTables)
    \/ InitWith(FracDcTables, FracStoreTables, FracLaneTables)
SpecFrac == InitFrac /\ [][Next]_vars

\* the instance of capacities 100 and 50, demands 80 and 90 and unit costs 1, 2, 3, 1,
\* next to the small tables
CaseDcTables == {<<DcRow(1, 100 * Unit), DcRow(2, 50 * Unit)>>}
CaseStoreTables == {<<StoreRow(1, 80 * Unit, RegionOf(1)), StoreRow(2, 90 * Unit, RegionOf(2))>>}
CaseLaneTables == {<<LaneRow(1, 1, 1), LaneRow(1, 2, 2), LaneRow(2, 1, 3), LaneRow(2, 2, 1)>>}
InitCase ==
    \/ InitWith(DcTables, StoreTables, LaneTables)
    \/ InitWith(CaseDcTables, CaseStoreTables, CaseLaneTables)
SpecCase == InitCase /\ [][Next]_vars

\* scenario runs over full-size tables with referential integrity
ScenDcTables ==
    {t \in DcTables : Len(t) = MaxDCs /\ \A k \in 1..Len(t) : t[k].weekly_capacity = MaxQty * Unit}
ScenStoreTables ==
    {t \in StoreTables : Len(t) = MaxStores /\ \A k \in 1..Len(t) : t[k].weekly_demand = Unit}
ScenLaneTables ==
    {t \in LaneTables : Len(t) = MaxLanes /\ \A j \in 1..Len(t) : t[j].cost_per_unit_usd = 1}
InitScen == InitWith(ScenDcTables, ScenStoreTables, ScenLaneTables)
NextScen == RunOpt \/ RunModelOpt \/ RunScenario \/ ScenarioMain
SpecScen == InitScen /\ [][NextScen]_vars

\* scenarios applied one after the other to the tables of the scenario runs
InitCompose == InitWith(ScenDcTables, ScenStoreTables, ScenLaneTables)
NextCompose == ApplyScenario
SpecCompose == InitCompose /\ [][NextCompose]_vars

\* questions put to the router
InitRoute == InitWith(CaseDcTables, CaseStoreTables, CaseLaneTables)
NextRoute == Route
SpecRoute == InitRoute /\ [][NextRoute]_vars

\* answers asked of one process between a full solve and a scenario solve
InitAnswer == InitWith(ScenDcTables, ScenStoreTables, ScenLaneTables)
NextAnswer ==
    RunOpt \/ RunScenario \/ AskTotalCost \/ AskTransportCost \/ AskUnmetUnits \/ ResetCaches
SpecAnswer == InitAnswer /\ [][NextAnswer]_vars

\* analytics after a solve.  Either the solve is still to run, on full-size tables
\* whose DCs all have capacity zero or all have capacity MaxQty; or optimization.run
\* has already solved tables on which every unit of demand is shipped at unit
\* cost 1, which is optimal below the penalty, with shipments of up to MaxFlowQty
\* units
AnDcTables ==
    {t \in DcTables : Len(t) = MaxDCs
        /\ \E c \in {0, MaxQty * Unit} : \A k \in 1..Len(t) : t[k].weekly_capacity = c}
ShipVals == {0, Unit \div 2, Unit, MaxFlowQty * Unit}
SolvedInit(tr, x) ==
    LET st == [s \in 1..MaxStores |->
                  StoreRow(s, SumSeq([j \in 1..Len(tr) |->
                                  IF tr[j].store_id = s THEN x[j] ELSE 0]), RegionOf(s))]
        shipped(i) == SumSeq([j \in 1..Len(tr) |-> IF tr[j].dc_id = i THEN x[j] ELSE 0])
        dc == [i \in 1..MaxDCs |->
                  DcRow(i, IF shipped(i) > MaxQty * Unit THEN shipped(i) ELSE MaxQty * Unit)]
        u == [k \in 1..MaxStores |-> 0]
        flows == Flows(tr, x)
        unmet == UnmetRows(st, u)
    IN  /\ dcs = dc
        /\ stores = st
        /\ transport = tr
        /\ optimal_flows = File(flows)
        /\ unmet_demand = File(unmet)
        /\ dc_utilization = File(UtilRows(dc, flows))
        /\ kpi_summary = File(KpiRows(flows, unmet, dc, st, UNMET_PENALTY))
        /\ res = [success |-> TRUE, status |-> 0, message |-> "optimal", x |-> x \o u]
        /\ raised = "none"
        /\ message = ""
        /\ n_calls = 1
        /\ entry = "optimization"
        /\ n_runs = MaxRuns
        /\ n_scen = 0
        /\ levers = NoLevers
        /\ applied = <<>>
        /\ caller = "optimization"
        /\ cost_by_dc = NoFile
        /\ stores_served_by_dc = NoFile
        /\ cost_by_region = NoFile
        /\ slow_lanes_detail = NoFile
        /\ slow_lanes_kpis = NoFile
        /\ an_raised = "none"
        /\ n_an = 0
        /\ pc = [r \in Req |-> "idle"]
        /\ loc = [r \in Req |-> NoLocals]
        /\ seen = NotRead
        /\ ties = "kept"
        /\ shown = <<>>
        /\ asked = NoQuery
        /\ kpi_cache = NotCached
        /\ answer = NoAnswer
        /\ routed = NotRouted
InitAn ==
    \/ InitWith(AnDcTables, ScenStoreTables, ScenLaneTables)
    \/ \E tr \in ScenLaneTables :
        \E x \in [1..MaxLanes -> ShipVals] :
            /\ \E j \in 1..MaxLanes : Keep(x[j])
            /\ SolvedInit(tr, x)
NextAn == RunOpt \/ RunAnalytics
SpecAn == InitAn /\ [][NextAn]_vars

\* concurrent scenario requests on one DC, one store and their lane
ApiDcTables == {<<DcRow(1, MaxQty * Unit)>>}
ApiStoreTables == {<<StoreRow(1, Unit, RegionOf(1))>>}
ApiLaneTables == {<<LaneRow(1, 1, 1)>>}
InitApi == InitWith(ApiDcTables, ApiStoreTables, ApiLaneTables)
NextApi ==
    \/ \E r \in Req :
        \/ ScRead(r)
        \/ ScWriteDcs(r)
        \/ ScWriteStores(r)
        \/ OptReadStores(r)
        \/ OptReadDcs(r)
        \/ OptSolve(r)
        \/ WriteUnmet(r)
        \/ WriteUtil(r)
        \/ WriteKpi(r)
    \/ ReadOutputs
SpecApi == InitApi /\ [][NextApi]_vars

\* rollups and the queries on them, in builds of either tie order, on a Store table
\* as clean_tables can leave it: drop_duplicates compares
\* whole rows, so a store whose copy had its demand or region blanked keeps both
\* rows, the copy last, with an imputed demand or region
DupStoreTables ==
    {<<StoreRow(1, Unit, RegionOf(1)), StoreRow(2, Unit, RegionOf(2)), StoreRow(1, d, r)>>
        : d \in {Unit, 2 * Unit}, r \in Regions}
InitRollup ==
    \/ InitAn
    \/ InitBuild(AnDcTables, DupStoreTables \cup ScenStoreTables, ScenLaneTables, TieOrders)
NextRollup == RunOpt \/ RunAnalytics \/ QueryCostByDc \/ QueryCostByRegion
SpecRollup == InitRollup /\ [][NextRollup]_vars

(************************* reading a snapshot ******************************)
Ran == entry # "none"
Succeeded == Ran /\ raised = "none"
PenaltyOf(e) == IF e = "model.optimization" THEN CFG_UNMET_PENALTY ELSE UNMET_PENALTY

\* every lane names a DC of the DC table and a store of the Store table
RefIntegrity ==
    \A j \in 1..Len(transport) :
        /\ \E k \in 1..Len(dcs) : dcs[k].dc_id = transport[j].dc_id
        /\ \E k \in 1..Len(stores) : stores[k].store_id = transport[j].store_id
NonNegative ==
    /\ \A k \in 1..Len(dcs) : dcs[k].weekly_capacity >= 0
    /\ \A k \in 1..Len(stores) : stores[k].weekly_demand >= 0

ShippedInto(s) ==
    SumSeq([k \in 1..Len(optimal_flows.rows) |->
        IF optimal_flows.rows[k].store_id = s THEN optimal_flows.rows[k].units_assigned ELSE 0])
ShippedFrom(i) ==
    SumSeq([k \in 1..Len(optimal_flows.rows) |->
        IF optimal_flows.rows[k].dc_id = i THEN optimal_flows.rows[k].units_assigned ELSE 0])
UnmetOf(s) ==
    SumSeq([k \in 1..Len(unmet_demand.rows) |->
        IF unmet_demand.rows[k].store_id = s THEN unmet_demand.rows[k].unmet_units ELSE 0])
HasFlow(i, s) ==
    \E k \in 1..Len(optimal_flows.rows) :
        optimal_flows.rows[k].dc_id = i /\ optimal_flows.rows[k].store_id = s
\* the lanes into store s that carry no Flow
IdleLanesInto(s) ==
    Cardinality({j \in 1..Len(transport) :
        transport[j].store_id = s /\ ~HasFlow(transport[j].dc_id, s)})

LaneSumInto(x, s) ==
    SumSeq([j \in 1..Len(transport) |-> IF transport[j].store_id = s THEN x[j] ELSE 0])
LaneSumFrom(x, i) ==
    SumSeq([j \in 1..Len(transport) |-> IF transport[j].dc_id = i THEN x[j] ELSE 0])
FeasibleShipments(x) ==
    /\ \A j \in 1..Len(transport) : x[j] >= 0
    /\ \A k \in 1..Len(stores) : LaneSumInto(x, stores[k].store_id) <= stores[k].weekly_demand
    /\ \A k \in 1..Len(dcs) : LaneSumFrom(x, dcs[k].dc_id) <= dcs[k].weekly_capacity
CostOf(x, penalty) ==
    SumSeq([j \in 1..Len(transport) |-> transport[j].cost_per_unit_usd * x[j]])
    + penalty * SumSeq([k \in 1..Len(stores) |->
                    stores[k].weekly_demand - LaneSumInto(x, stores[k].store_id)])
Assignments ==
    [1..Len(transport) ->
        Grid([k \in 1..Len(dcs) |-> dcs[k].weekly_capacity],
             [k \in 1..Len(stores) |-> stores[k].weekly_demand])]
PersistedCost ==
    TransportCost(optimal_flows.rows) + PenaltyCost(unmet_demand.rows, PenaltyOf(entry))
\* the lanes of negative unit cost that carry no Flow
IdleNegativeCost ==
    SumSeq([j \in 1..Len(transport) |->
        IF transport[j].cost_per_unit_usd < 0
           /\ ~HasFlow(transport[j].dc_id, transport[j].store_id)
        THEN -transport[j].cost_per_unit_usd ELSE 0])

TotalCapacity == SumSeq([k \in 1..Len(dcs) |-> dcs[k].weekly_capacity])
TotalDemand == SumSeq([k \in 1..Len(stores) |-> stores[k].weekly_demand])

(* C4: on tables with non-negative capacities and demands and lanes that   *)
(* name only known DCs and stores, the solver reports an optimal solution  *)
(* and the run raises no solve failure, also when total demand exceeds     *)
(* total capacity.                                                         *)
C4_AlwaysSolvable ==
    (Ran /\ NonNegative /\ RefIntegrity) =>
        /\ n_calls = 1
        /\ res.success
        /\ res.status = 0
        /\ raised # "RuntimeError"

\* a solved instance whose total demand exceeds its total capacity
C4_Witness ==
    /\ Ran
    /\ NonNegative
    /\ RefIntegrity
    /\ Len(transport) > 0
    /\ TotalDemand > TotalCapacity
    /\ res.success

(**************************** degenerate inputs ****************************)
Degenerate ==
    \/ TotalCapacity = 0
    \/ Len(transport) = 0
    \/ \A k \in 1..Len(stores) : stores[k].weekly_demand = 0

(* C7 as stated: on degenerate inputs (total capacity zero, no lane, or    *)
(* every demand zero) a solve raises nothing and persists a complete       *)
(* snapshot: no Flows, every store unmet by its demand, one utilization    *)
(* row per DC and a transport-cost KPI of zero.                            *)
C7_AsStated ==
    (Ran /\ NonNegative /\ RefIntegrity /\ Degenerate) =>
        /\ raised = "none"
        /\ optimal_flows.present /\ optimal_flows.rows = <<>>
        /\ unmet_demand.present
        /\ \A k \in 1..Len(stores) : UnmetOf(stores[k].store_id) = stores[k].weekly_demand
        /\ dc_utilization.present /\ Len(dc_utilization.rows) = Len(dcs)
        /\ kpi_summary.present /\ kpi_summary.rows[1].value = 0

(****************************** stray lanes ********************************)
StrayLane(j) ==
    \/ ~\E k \in 1..Len(dcs) : dcs[k].dc_id = transport[j].dc_id
    \/ ~\E k \in 1..Len(stores) : stores[k].store_id = transport[j].store_id
StrayLanes == {j \in 1..Len(transport) : StrayLane(j)}

(* C8 as stated: a lane naming an unknown DC or store is excluded from the *)
(* model: the build does not crash on it, it carries nothing in the        *)
(* solution, no Flow is emitted on it and it does not make the program     *)
(* unbounded.                                                              *)
C8_AsStated ==
    (Ran /\ NonNegative /\ StrayLanes # {}) =>
        /\ ~(raised = "KeyError" /\ n_calls = 0)
        /\ res.status # 3
        /\ res.success => \A j \in StrayLanes : res.x[j] = 0
        /\ Succeeded =>
            \A j \in StrayLanes : ~HasFlow(transport[j].dc_id, transport[j].store_id)

(****************************** unserved stores ****************************)
NoLaneInto(s) == \A j \in 1..Len(transport) : transport[j].store_id # s

(* C9 as stated: in a solve whose inputs hold a store with no lane from    *)
(* any DC, the solve raises nothing, that store's unmet units equal its    *)
(* demand and no Flow runs into it.                                        *)
C9_AsStated ==
    (Ran /\ NonNegative /\ RefIntegrity) =>
        \A k \in 1..Len(stores) :
            NoLaneInto(stores[k].store_id) =>
                /\ raised = "none"
                /\ unmet_demand.present
                /\ UnmetOf(stores[k].store_id) = stores[k].weekly_demand
                /\ ShippedInto(stores[k].store_id) = 0

(******************************* the Flows *********************************)
RowsOn(i, s) ==
    {k \in 1..Len(optimal_flows.rows) :
        optimal_flows.rows[k].dc_id = i /\ optimal_flows.rows[k].store_id = s}

(* C10: after a successful solve the Flows hold exactly one row for each   *)
(* lane whose solved shipment exceeds 1e-6 and none for a lane at or below *)
(* 1e-6; a row carries the DC id, store id and unit cost of the lane at    *)
(* its position in the lane list and the solved value of that position,    *)
(* and its flow_cost is units times unit cost.                             *)
C10_FlowRows ==
    Succeeded =>
        /\ \A j \in 1..Len(transport) :
            Cardinality(RowsOn(transport[j].dc_id, transport[j].store_id))
                = IF res.x[j] > Tol THEN 1 ELSE 0
        /\ \A k \in 1..Len(optimal_flows.rows) :
            LET r == optimal_flows.rows[k]
            IN  /\ r.flow_cost_usd = r.units_assigned * r.cost_per_unit_usd
                /\ \E j \in 1..Len(transport) :
                    /\ r.dc_id = transport[j].dc_id
                    /\ r.store_id = transport[j].store_id
                    /\ r.cost_per_unit_usd = transport[j].cost_per_unit_usd
                    /\ r.units_assigned = res.x[j]
        /\ \A k \in 1..Len(optimal_flows.rows) : \A m \in 1..Len(optimal_flows.rows) :
            k < m =>
                \E j \in 1..Len(transport) : \E l \in 1..Len(transport) :
                    /\ j < l
                    /\ optimal_flows.rows[k].units_assigned = res.x[j]
                    /\ optimal_flows.rows[k].dc_id = transport[j].dc_id
                    /\ optimal_flows.rows[k].store_id = transport[j].store_id
                    /\ optimal_flows.rows[m].dc_id = transport[l].dc_id
                    /\ optimal_flows.rows[m].store_id = transport[l].store_id

\* a lane solved at exactly 1e-6 has no row while another lane has one
C10_Witness ==
    /\ Succeeded
    /\ \E j \in 1..Len(transport) :
        res.x[j] = Tol /\ ~HasFlow(transport[j].dc_id, transport[j].store_id)
    /\ \E j \in 1..Len(transport) :
        res.x[j] > Tol /\ HasFlow(transport[j].dc_id, transport[j].store_id)


(***************************** headline KPIs *******************************)
KpiTransport == kpi_summary.rows[1].value
KpiPenalty == kpi_summary.rows[2].value
KpiTotal == kpi_summary.rows[3].value

(* C5 as stated, amounts compared in cents: after a successful solve the   *)
(* total-cost KPI equals the flow_cost of the persisted Flows plus the     *)
(* penalty times the persisted unmet units, and equals the sum of the      *)
(* reported transport-cost KPI and the reported unmet-penalty KPI.         *)
C5_AsStated ==
    (Succeeded /\ NonNegative /\ RefIntegrity) =>
        /\ KpiTotal = Round2(PersistedCost)
        /\ KpiTotal = KpiTransport + KpiPenalty

(****************************** solve failure ******************************)
(* C6: a run whose solver call reports non-success raises an error that    *)
(* carries the solver's message, has called the solver exactly once and    *)
(* leaves all four output files as they were; no other run raises that     *)
(* error.                                                                  *)
C6_FailureIsFatal ==
    [][ /\ (n_calls' = 1 /\ ~res'.success) =>
            /\ raised' = "RuntimeError"
            /\ message' = res'.message
            /\ message' \in {"infeasible", "unbounded"}
            /\ UNCHANGED outputs
        /\ raised' = "RuntimeError" => (n_calls' = 1 /\ ~res'.success)
      ]_vars

\* a failed scenario solve that found the files of an earlier solve in place
C6_Witness ==
    /\ raised = "RuntimeError"
    /\ n_calls = 1
    /\ n_scen = 1
    /\ optimal_flows.present
    /\ optimal_flows.rows # <<>>
    /\ kpi_summary.present

(***************************** unmet demand ********************************)
(* C11: after a successful solve the UnmetDemand file holds exactly one    *)
(* row per row of the Store table, in the order of the Store table, rows   *)
(* of zero unmet units included, and the value of a row is the solved      *)
(* unmet variable of the store at that position.                           *)
C11_UnmetRows ==
    Succeeded =>
        /\ unmet_demand.present
        /\ Len(unmet_demand.rows) = Len(stores)
        /\ \A k \in 1..Len(stores) :
            /\ unmet_demand.rows[k].store_id = stores[k].store_id
            /\ unmet_demand.rows[k].unmet_units = res.x[Len(transport) + k]

\* two stores, one fully served with a row of zero, one with unmet units
C11_Witness ==
    /\ Succeeded
    /\ RefIntegrity
    /\ Len(stores) = 2
    /\ \E k \in 1..2 :
        /\ stores[k].weekly_demand > 0
        /\ unmet_demand.rows[k].unmet_units = 0
        /\ unmet_demand.rows[3 - k].unmet_units > 0

(****************************** utilization ********************************)
(* C12 as stated: after a successful solve the utilization file holds one  *)
(* row per DC of the DC table, its assigned units are the sum of the DC's  *)
(* Flows, its utilization is assigned / capacity * 100, and a DC without   *)
(* Flow shows 0 assigned units and 0 percent whatever its capacity, zero   *)
(* included.                                                               *)
C12_AsStated ==
    (Succeeded /\ NonNegative /\ RefIntegrity) =>
        /\ dc_utilization.present
        /\ Len(dc_utilization.rows) = Len(dcs)
        /\ \A k \in 1..Len(dcs) :
            LET r == dc_utilization.rows[k]
            IN  /\ r.dc_id = dcs[k].dc_id
                /\ r.units_assigned = ShippedFrom(dcs[k].dc_id)
                /\ dcs[k].weekly_capacity # 0 =>
                        r.utilization_pct = Pct(r.units_assigned, dcs[k].weekly_capacity)
                /\ r.units_assigned = 0 =>
                        r.utilization_pct = [kind |-> "num", val |-> 0]

(***************************** scenario levers *****************************)
ScenarioRan == caller \in {"run_scenario", "scenarios"}
MultOf(m, key) == IF key \in DOMAIN m THEN m[key] ELSE 1
KpiTotalUnits(f) == f.rows[4].value

(* C13: a scenario run multiplies the capacity of each DC named in the     *)
(* capacity mapping and the demand of each store whose region is named in  *)
(* the demand mapping by the given multiplier, stores the product as it    *)
(* is, and leaves every other capacity and demand, the ids, the regions,   *)
(* the row order and the Lane table as they were; an empty scenario        *)
(* changes nothing.                                                        *)
C13_LeversFrame ==
    [][ n_scen' # n_scen =>
            /\ Len(dcs') = Len(dcs)
            /\ \A k \in 1..Len(dcs) :
                /\ dcs'[k].dc_id = dcs[k].dc_id
                /\ dcs'[k].weekly_capacity =
                        dcs[k].weekly_capacity * MultOf(levers'.dc_capacity_mult, dcs[k].dc_id)
            /\ Len(stores') = Len(stores)
            /\ \A k \in 1..Len(stores) :
                /\ stores'[k].store_id = stores[k].store_id
                /\ stores'[k].region = stores[k].region
                /\ stores'[k].weekly_demand =
                        stores[k].weekly_demand * MultOf(levers'.region_demand_mult, stores[k].region)
            /\ transport' = transport
            /\ levers' = NoLevers => (dcs' = dcs /\ stores' = stores)
      ]_vars

\* one DC scaled below zero next to an untouched DC, one region doubled next to an untouched store
C13_Witness ==
    /\ n_scen = 1
    /\ n_runs = 0
    /\ \E k \in 1..Len(dcs) :
        /\ dcs[k].dc_id \in DOMAIN levers.dc_capacity_mult
        /\ levers.dc_capacity_mult[dcs[k].dc_id] = -1
        /\ dcs[k].weekly_capacity = -(MaxQty * Unit)
    /\ \E k \in 1..Len(dcs) :
        /\ dcs[k].dc_id \notin DOMAIN levers.dc_capacity_mult
        /\ dcs[k].weekly_capacity = MaxQty * Unit
    /\ \E k \in 1..Len(stores) :
        /\ stores[k].region \in DOMAIN levers.region_demand_mult
        /\ stores[k].weekly_demand = 2 * Unit
    /\ \E k \in 1..Len(stores) :
        /\ stores[k].region \notin DOMAIN levers.region_demand_mult
        /\ stores[k].weekly_demand = Unit

C17_AsStated ==
    ( /\ ScenarioRan
      /\ \/ \E key \in DOMAIN levers.dc_capacity_mult : levers.dc_capacity_mult[key] <= 0
         \/ \E key \in DOMAIN levers.region_demand_mult : levers.region_demand_mult[key] <= 0 ) =>
        /\ raised = "none"
        /\ optimal_flows.present
        /\ unmet_demand.present
        /\ dc_utilization.present
        /\ kpi_summary.present

(* C18 as stated: after a scenario that sets the capacity multiplier of    *)
(* every DC to 0 and scales no demand, the snapshot on disk has every      *)
(* store with a lane fully unmet and no Flow out of any DC.                *)
C18_AsStated ==
    ( /\ ScenarioRan
      /\ levers.region_demand_mult = <<>>
      /\ \A k \in 1..Len(dcs) :
            /\ dcs[k].dc_id \in DOMAIN levers.dc_capacity_mult
            /\ levers.dc_capacity_mult[dcs[k].dc_id] = 0 ) =>
        /\ unmet_demand.present
        /\ optimal_flows.present
        /\ \A k \in 1..Len(stores) :
            ~NoLaneInto(stores[k].store_id) =>
                UnmetOf(stores[k].store_id) = stores[k].weekly_demand
        /\ \A k \in 1..Len(dcs) : ShippedFrom(dcs[k].dc_id) = 0

(******************************* slow lanes ********************************)
\* analytics.run was the last step and returned
AnalysedNow ==
    \/ caller = "analytics" /\ an_raised = "none"
    \/ caller = "scenarios" /\ raised = "none"
\* the transit time of the lane of Flow f, in hundredths of a day
DaysOf(f) ==
    LET j == CHOOSE j \in 1..Len(transport) :
                 transport[j].dc_id = f.dc_id /\ transport[j].store_id = f.store_id
    IN  transport[j].service_time_days
SlowFlows == {k \in 1..Len(optimal_flows.rows) : DaysOf(optimal_flows.rows[k]) > SlowDays}
SlowUnits ==
    SumSeq([k \in 1..Len(optimal_flows.rows) |->
        IF k \in SlowFlows THEN optimal_flows.rows[k].units_assigned ELSE 0])
InDetail(f) ==
    \E m \in 1..Len(slow_lanes_detail.rows) :
        LET r == slow_lanes_detail.rows[m]
        IN  /\ r.dc_id = f.dc_id
            /\ r.store_id = f.store_id
            /\ r.units_assigned = f.units_assigned
            /\ r.service_time_days = DaysOf(f)

(* C19: after analytics the slow-lane detail holds exactly the Flows whose *)
(* lane has a transit time strictly above 2.0 days, the slow-lane count is *)
(* their number and units_on_slow_lanes is the sum of their units; a Flow  *)
(* at exactly 2.0 days is in neither.                                      *)
C19_SlowLanes ==
    AnalysedNow =>
        /\ slow_lanes_detail.present
        /\ slow_lanes_kpis.present
        /\ Len(slow_lanes_detail.rows) = Cardinality(SlowFlows)
        /\ \A k \in 1..Len(optimal_flows.rows) :
            InDetail(optimal_flows.rows[k]) <=> DaysOf(optimal_flows.rows[k]) > SlowDays
        /\ slow_lanes_kpis.rows[1].slow_lanes_count = Cardinality(SlowFlows)
        /\ slow_lanes_kpis.rows[1].units_on_slow_lanes = SlowUnits

\* a Flow at exactly 2.0 days outside the detail, a Flow of 500 units at 3.0 days
\* inside it, counted once and adding its 500 units
C19_Witness ==
    /\ AnalysedNow
    /\ \E k \in 1..Len(optimal_flows.rows) :
        /\ DaysOf(optimal_flows.rows[k]) = SlowDays
        /\ ~InDetail(optimal_flows.rows[k])
    /\ \E k \in 1..Len(optimal_flows.rows) :
        /\ DaysOf(optimal_flows.rows[k]) = 300
        /\ optimal_flows.rows[k].units_assigned = MaxFlowQty * Unit
        /\ InDetail(optimal_flows.rows[k])
    /\ slow_lanes_kpis.rows[1].slow_lanes_count = 1
    /\ slow_lanes_kpis.rows[1].units_on_slow_lanes = MaxFlowQty * Unit

ShippedUnits == SumSeq([k \in 1..Len(optimal_flows.rows) |-> optimal_flows.rows[k].units_assigned])
\* a solve whose solution ships nothing above 1e-6
NothingShipped ==
    /\ Ran
    /\ res.success
    /\ \A j \in 1..Len(transport) : res.x[j] <= Tol

(* C20 as stated: after analytics the slow-lane percentage is 100 times    *)
(* the units on slow lanes over the larger of the shipped units and 1;     *)
(* and analytics run after a solve that ships nothing completes and        *)
(* reports 0 slow lanes, 0 units and 0 percent.                            *)
C20_AsStated ==
    /\ AnalysedNow =>
            slow_lanes_kpis.rows[1].pct_units_on_slow_lanes =
                Pct100(SlowUnits, IF ShippedUnits > Unit THEN ShippedUnits ELSE Unit)
    /\ (caller = "analytics" /\ NothingShipped) =>
            /\ an_raised = "none"
            /\ slow_lanes_kpis.present
            /\ slow_lanes_kpis.rows =
                   << [slow_lanes_count |-> 0, units_on_slow_lanes |-> 0,
                       pct_units_on_slow_lanes |-> [num |-> 0, den |-> 1]] >>

(*************************** concurrent access *****************************)
\* the four result files f, u, d, k describe one solve: utilization and KPIs
\* agree with the Flows and the unmet rows next to them
OneSolve(f, u, d, k) ==
    \/ ~f.present /\ ~u.present /\ ~d.present /\ ~k.present
    \/ /\ f.present /\ u.present /\ d.present /\ k.present
       /\ \A m \in 1..Len(d.rows) :
            d.rows[m].units_assigned = Assigned(f.rows, d.rows[m].dc_id)
       /\ k.rows[1].value = Round2(TransportCost(f.rows))
       /\ k.rows[2].value = Round2(PenaltyCost(u.rows, CFG_UNMET_PENALTY))

(* C15 as stated: whenever a consumer reads the result files, what it sees *)
(* is the output of one completed solve: all four files, agreeing with     *)
(* each other.                                                             *)
C15_AsStated ==
    seen.read =>
        OneSolve(seen.optimal_flows, seen.unmet_demand, seen.dc_utilization, seen.kpi_summary)

(* C16 as stated: from the moment a request's solve has read a reference   *)
(* table until its snapshot is persisted, the table on disk is the one it  *)
(* read: no other request has written it in between.                       *)
C16_AsStated ==
    \A r \in Req :
        /\ pc[r] \in {"read_dcs", "solve", "write_unmet", "write_util", "write_kpi"} =>
                stores = loc[r].o_stores
        /\ pc[r] \in {"solve", "write_unmet", "write_util", "write_kpi"} =>
                dcs = loc[r].o_dcs

(******************************* cost rollups ******************************)
\* the regions the Store table gives store s
RegionsOf(s) == {stores[j].region : j \in {m \in 1..Len(stores) : stores[m].store_id = s}}
RollupTotal(f) == SumSeq([m \in 1..Len(f.rows) |-> f.rows[m].flow_cost_usd])

(* C21 as stated: after analytics, cost-by-DC has exactly one row for each *)
(* DC with a Flow, holding the sum of the flow costs of its Flows;         *)
(* cost-by-region has exactly one row for each region with a Flow into one *)
(* of its stores, holding the sum of the flow costs of those Flows; and    *)
(* the total of each rollup is the total transport cost of the Flows.      *)
C21_AsStated ==
    AnalysedNow =>
        LET F == optimal_flows.rows
            CostFrom(i) ==
                SumSeq([k \in 1..Len(F) |-> IF F[k].dc_id = i THEN F[k].flow_cost_usd ELSE 0])
            CostInto(r) ==
                SumSeq([k \in 1..Len(F) |->
                    IF r \in RegionsOf(F[k].store_id) THEN F[k].flow_cost_usd ELSE 0])
        IN  /\ cost_by_dc.present
            /\ cost_by_region.present
            /\ \A k \in 1..Len(F) :
                    Cardinality({m \in 1..Len(cost_by_dc.rows) :
                                    cost_by_dc.rows[m].dc_id = F[k].dc_id}) = 1
            /\ \A m \in 1..Len(cost_by_dc.rows) :
                    /\ \E k \in 1..Len(F) : F[k].dc_id = cost_by_dc.rows[m].dc_id
                    /\ cost_by_dc.rows[m].flow_cost_usd = CostFrom(cost_by_dc.rows[m].dc_id)
            /\ \A k \in 1..Len(F) : \A r \in RegionsOf(F[k].store_id) :
                    Cardinality({m \in 1..Len(cost_by_region.rows) :
                                    cost_by_region.rows[m].region = r}) = 1
            /\ \A m \in 1..Len(cost_by_region.rows) :
                    /\ \E k \in 1..Len(F) : cost_by_region.rows[m].region \in RegionsOf(F[k].store_id)
                    /\ cost_by_region.rows[m].flow_cost_usd = CostInto(cost_by_region.rows[m].region)
            /\ RollupTotal(cost_by_dc) = TransportCost(F)
            /\ RollupTotal(cost_by_region) = TransportCost(F)

\* the identifier of a rollup row, in identifier order
EntityOf(r) == IF "dc_id" \in DOMAIN r THEN r.dc_id ELSE RegionRank(r.region)
\* row a is presented before row b
Before(a, b, order) ==
    \/ order = "desc" /\ a.flow_cost_usd > b.flow_cost_usd
    \/ order = "asc" /\ a.flow_cost_usd < b.flow_cost_usd
    \/ a.flow_cost_usd = b.flow_cost_usd /\ EntityOf(a) < EntityOf(b)
\* the rows of the table that query q reads
Queried(q) == IF q.table = "cost_by_dc" THEN cost_by_dc.rows ELSE cost_by_region.rows
\* the answer rows to query q is the presentation the claim describes
Presented(rows, q) ==
    /\ Len(rows) = (IF q.n < Len(Queried(q)) THEN q.n ELSE Len(Queried(q)))
    /\ \A m \in 1..Len(rows) : \E k \in 1..Len(Queried(q)) : rows[m] = Queried(q)[k]
    /\ \A m \in 1..(Len(rows) - 1) : Before(rows[m], rows[m + 1], q.order)
    /\ \A k \in 1..Len(Queried(q)) :
            (\A m \in 1..Len(rows) : rows[m] # Queried(q)[k]) =>
                \A m \in 1..Len(rows) : Before(rows[m], Queried(q)[k], q.order)

(* C22 as stated: the rows a rollup query returns are in descending cost    *)
(* order, or ascending when asked so, rows of equal cost are in ascending   *)
(* identifier order, and every row cut off by the limit comes after every   *)
(* row returned in that order.                                              *)
C22_AsStated ==
    [][ (<<shown, asked>>' # <<shown, asked>> /\ shown' # <<>>) => Presented(shown', asked') ]_vars

CaseInstance ==
    /\ dcs \in CaseDcTables
    /\ stores \in CaseStoreTables
    /\ transport \in CaseLaneTables

UnitCostOf(i, s) ==
    LET j == CHOOSE l \in 1..Len(transport) : transport[l].dc_id = i /\ transport[l].store_id = s
    IN  transport[j].cost_per_unit_usd
ShippedTotal == SumSeq([k \in 1..Len(optimal_flows.rows) |-> optimal_flows.rows[k].units_assigned])
UnmetTotal == SumSeq([k \in 1..Len(unmet_demand.rows) |-> unmet_demand.rows[k].unmet_units])
ShippedTimesCost ==
    SumSeq([k \in 1..Len(optimal_flows.rows) |->
        optimal_flows.rows[k].units_assigned
            * UnitCostOf(optimal_flows.rows[k].dc_id, optimal_flows.rows[k].store_id)])

(* C24: on the instance with capacities 100 and 50, demands 80 and 90,     *)
(* unit costs 1, 2, 3, 1 and penalty 10, a solve completes, leaves exactly *)
(* 20 units unmet in total, shipped plus unmet units sum to 170, each      *)
(* store's shipped plus unmet units equal its own demand, and the total    *)
(* cost of the KPI summary is the shipped units times their unit costs     *)
(* plus 20 * 10.                                                           *)
C24_CaseOutcome ==
    (CaseInstance /\ Ran) =>
        /\ Succeeded
        /\ UnmetTotal = 20 * Unit
        /\ ShippedTotal + UnmetTotal = 170 * Unit
        /\ \A k \in 1..Len(stores) :
                ShippedInto(stores[k].store_id) + UnmetOf(stores[k].store_id)
                    = stores[k].weekly_demand
        /\ KpiTotal = Round2(ShippedTimesCost + 20 * Unit * PenaltyOf(entry))

\* the instance solved: Flows on three lanes, unmet units at the second store only
C24_Witness ==
    /\ CaseInstance
    /\ Succeeded
    /\ Len(optimal_flows.rows) = 3
    /\ UnmetOf(2) = 20 * Unit
    /\ UnmetOf(1) = 0

(* C25 as stated: on the same instance the persisted Flows carry 100 units *)
(* combined.                                                               *)
C25_AsStated ==
    (CaseInstance /\ Succeeded) => ShippedTotal = 100 * Unit

(* C25: on the same instance a solve completes and the persisted Flows     *)
(* carry 150 units combined, the whole capacity of the two DCs.            *)
C25_ShipsCapacity ==
    (CaseInstance /\ Ran) => (Succeeded /\ ShippedTotal = 150 * Unit)

\* the instance solved with both DCs shipping their whole capacity
C25_Witness ==
    /\ CaseInstance
    /\ Succeeded
    /\ ShippedFrom(1) = 100 * Unit
    /\ ShippedFrom(2) = 50 * Unit

(************************ unmet only when cheaper **************************)
\* the lanes out of DC i that carry no Flow
IdleLanesFrom(i) ==
    Cardinality({j \in 1..Len(transport) :
        transport[j].dc_id = i /\ ~HasFlow(i, transport[j].store_id)})

NoDearFlow ==
    \A k \in 1..Len(optimal_flows.rows) :
        UnitCostOf(optimal_flows.rows[k].dc_id, optimal_flows.rows[k].store_id)
            <= PenaltyOf(entry)

\* store s has a lane cheaper than the penalty from a DC of the DC table whose
\* persisted Flows leave more than `room` of its capacity unused
CheapLaneWithRoom(s, room(_)) ==
    \E j \in 1..Len(transport) : \E k \in 1..Len(dcs) :
        /\ transport[j].store_id = s
        /\ transport[j].cost_per_unit_usd < PenaltyOf(entry)
        /\ dcs[k].dc_id = transport[j].dc_id
        /\ dcs[k].weekly_capacity - ShippedFrom(dcs[k].dc_id) > room(dcs[k].dc_id)

C27_AsStated ==
    (optimal_flows.present /\ unmet_demand.present) =>
        /\ \A k \in 1..Len(stores) :
            LET s == stores[k].store_id
                gap == stores[k].weekly_demand - (ShippedInto(s) + UnmetOf(s))
            IN  gap >= 0 /\ gap <= Tol * IdleLanesInto(s)
        /\ \A k \in 1..Len(dcs) : ShippedFrom(dcs[k].dc_id) <= dcs[k].weekly_capacity

(************************ scenarios one after another **********************)
MultOn(m, key) == IF key \in DOMAIN m THEN m[key] ELSE [num |-> 1, den |-> 1]
TwoApplied == Len(applied) = 2 /\ caller = "apply_scenario"

\* v is base times a times b exactly
IsProduct(v, base, a, b) == v * a.den * b.den = base * a.num * b.num
\* v is base times a times b to within four roundings of relative size 2^-FloatBits
NearProduct(v, base, a, b) ==
    Abs(v * a.den * b.den - base * a.num * b.num)
        <= (5 * Abs(base) * a.num * b.num) \div Pow2(FloatBits) + a.den * b.den

\* each call multiplied the tables the call before it had written
EachOnThePrevious ==
    /\ applied[2].dcs = FloatScaledDcs(applied[1].dcs, applied[1].cfg.dc_capacity_mult)
    /\ applied[2].stores = FloatScaledStores(applied[1].stores, applied[1].cfg.region_demand_mult)
    /\ dcs = FloatScaledDcs(applied[2].dcs, applied[2].cfg.dc_capacity_mult)
    /\ stores = FloatScaledStores(applied[2].stores, applied[2].cfg.region_demand_mult)

(* C28 as stated: after scenario A and then scenario B the DC capacities   *)
(* and store demands on disk are those that B and then A leave, a scenario *)
(* applied twice leaves every covered value at its old value times the     *)
(* square of the multiplier, and the second scenario multiplied what the   *)
(* first had written, not the values before it.                            *)
C28_AsStated ==
    TwoApplied =>
        LET A == applied[1].cfg
            B == applied[2].cfg
            base == applied[1]
        IN  /\ dcs = FloatScaledDcs(FloatScaledDcs(base.dcs, B.dc_capacity_mult), A.dc_capacity_mult)
            /\ stores = FloatScaledStores(FloatScaledStores(base.stores, B.region_demand_mult),
                                          A.region_demand_mult)
            /\ A = B =>
                /\ \A k \in 1..Len(dcs) :
                    IsProduct(dcs[k].weekly_capacity, base.dcs[k].weekly_capacity,
                              MultOn(A.dc_capacity_mult, dcs[k].dc_id),
                              MultOn(A.dc_capacity_mult, dcs[k].dc_id))
                /\ \A k \in 1..Len(stores) :
                    IsProduct(stores[k].weekly_demand, base.stores[k].weekly_demand,
                              MultOn(A.region_demand_mult, stores[k].region),
                              MultOn(A.region_demand_mult, stores[k].region))
            /\ EachOnThePrevious

(* C28: after scenario A and then scenario B every DC capacity and store   *)
(* demand on disk is its value before A times A's multiplier times B's     *)
(* multiplier (1 where a scenario does not cover it), to within the        *)
(* rounding of the floating-point products; the bound is the same in       *)
(* either order and for a scenario applied twice (the square of its        *)
(* multiplier); and the second scenario multiplied what the first had      *)
(* written, not the values before it.                                      *)
C28_Compose ==
    TwoApplied =>
        LET A == applied[1].cfg
            B == applied[2].cfg
            base == applied[1]
        IN  /\ \A k \in 1..Len(dcs) :
                NearProduct(dcs[k].weekly_capacity, base.dcs[k].weekly_capacity,
                            MultOn(A.dc_capacity_mult, dcs[k].dc_id),
                            MultOn(B.dc_capacity_mult, dcs[k].dc_id))
            /\ \A k \in 1..Len(stores) :
                NearProduct(stores[k].weekly_demand, base.stores[k].weekly_demand,
                            MultOn(A.region_demand_mult, stores[k].region),
                            MultOn(B.region_demand_mult, stores[k].region))
            /\ EachOnThePrevious

\* two different scenarios in a row that both cover DC 1, and a region scaled twice
\* by the same multiplier, with another DC left as it was
C28_Witness ==
    /\ TwoApplied
    /\ 1 \in DOMAIN applied[1].cfg.dc_capacity_mult
    /\ 1 \in DOMAIN applied[2].cfg.dc_capacity_mult
    /\ applied[1].cfg.dc_capacity_mult[1] # applied[2].cfg.dc_capacity_mult[1]
    /\ "R1" \in DOMAIN applied[1].cfg.region_demand_mult
    /\ "R1" \in DOMAIN applied[2].cfg.region_demand_mult
    /\ applied[1].cfg.region_demand_mult["R1"] = applied[2].cfg.region_demand_mult["R1"]
    /\ dcs[1].weekly_capacity # applied[1].dcs[1].weekly_capacity
    /\ dcs[2].weekly_capacity = applied[1].dcs[2].weekly_capacity

(*************************** answers and routing ***************************)
(* C29 as stated: an answer given after the latest solve reflects the      *)
(* files on disk: a KPI answer carries the value of kpi_summary.csv, the   *)
(* unmet answer carries the sum of unmet_demand.csv and the penalty of     *)
(* kpi_summary.csv, and a handler raises only when kpi_summary.csv is      *)
(* missing.                                                                *)
C29_AsStated ==
    (answer.name # "none" /\ answer.after = Solves) =>
        IF ~kpi_summary.present
        THEN answer.raised # "none"
        ELSE /\ answer.raised = "none"
             /\ answer.name = "total_cost" =>
                    answer.metrics.total_cost_with_penalty_usd
                        = KpiVal(kpi_summary.rows, "total_cost_with_penalty_usd", 0)
             /\ answer.name = "transport_cost" =>
                    answer.metrics.total_transport_cost_usd
                        = KpiVal(kpi_summary.rows, "total_transport_cost_usd", 0)
             /\ answer.name = "unmet_units" =>
                    /\ answer.metrics.unmet_units = UnmetTotal
                    /\ answer.metrics.unmet_penalty_usd
                        = KpiVal(kpi_summary.rows, "unmet_penalty_usd", 0)

(* C30 as stated: the question routed last got the intent of the first     *)
(* entry of _PATTERNS that matches it, None when no entry matches, and     *)
(* when the question is the trigger phrase of an entry it got that         *)
(* entry's intent.                                                         *)
C30_AsStated ==
    routed # NotRouted =>
        LET q == routed.question
            matching == {k \in 1..Len(Patterns) : Hits(k, q) # {}}
        IN  /\ matching = {} => routed.intent = None
            /\ matching # {} => routed.intent.name = Patterns[SetMin(matching)].intent
            /\ \A k \in 1..Len(TriggerPhrase) :
                    q = TriggerPhrase[k] => routed.intent.name = Patterns[k].intent

====
